---- MODULE Spec2Model ----
(***************************************************************************)
(* Deposit ledger and slip batch lifecycle of the billing backend.         *)
(*                                                                         *)
(* Money is counted in whole units of the smallest amount (cents): the     *)
(* handlers only add, subtract, compare and take minima of amounts, so an  *)
(* integer model follows them exactly.  Deposit amounts are drawn from     *)
(* 0..MaxAmount (the request schemas put no lower bound on an amount),     *)
(* amounts of use requests from 1..MaxAmount.                              *)
(*                                                                         *)
(* Specifications over the same tables:                                    *)
(*   Spec       the requests on deposits and batches, one at a time        *)
(*   SpecFifo   deposit creation and FIFO consumption, responses observed  *)
(*   SpecConc   use-fifo requests running concurrently                     *)
(*   SpecGen    a generation run pass by pass, with abort and commit       *)
(*   SpecSlips  generation, edit, confirmation and deletion of slip rows   *)
(*   SpecBatches  a second batch after the first was confirmed or deleted  *)
(*   SpecCharges  generation with additional charges of every contract     *)
(*   SpecProRata  manual pro-rata periods and get_pro_rata_ratio           *)
(*   SpecSplit    the split rule table and calculate_split_amounts         *)
(*   SpecRateDate calculate_exchange_rate_date                             *)
(*   SpecRates    the exchange-rate table and the overseas rate of a run   *)
(*   SpecEnsure   _ensure_exchange_rate step by step                       *)
(*   SpecAccounts the account codes generation resolves for a row          *)
(*   SpecRounding apply_rounding                                           *)
(*   SpecSplitCalc  calculate_split_amounts on a rule and an amount        *)
(*   SpecAmounts  the amounts of the rows generation adds for one usage    *)
(***************************************************************************)
EXTENDS Integers, Sequences, FiniteSets, TLC

(* ---------- bounds of the model ---------- *)
MaxDeposits == 2
MaxAmount == 2
MaxDate == 2
MaxUsages == 2
MaxBatches == 1
MaxSessions == 2
MaxMonth == 3      \* the calendar has the months 1..MaxMonth
MaxDay == 4        \* and months of MaxDay days, one of them a day shorter
MaxRules == 1
MaxAllocations == 3
MaxSplitAmount == 5

(* ---------- values ---------- *)
Null == "None"
Amounts == 0..MaxAmount
Dates == 1..MaxDate
Currencies == {"KRW", "USD"}
ProfileIds == {1}
ContractProfileIds == {1}

VARIABLES
    deposits,    \* table deposits: sequence of rows, the id is the index
    usages,      \* table deposit_usages: sequence of rows in insertion order
    slips,       \* table slip_records: set of rows
    nextBatch,   \* number of batch ids handed out so far, plus one
    lastOp,      \* the last request handled and its response, where observed
    sessions,    \* concurrent FIFO requests: what each session has read
    gen,         \* a generation run in progress: its uncommitted work
    periods,     \* table pro_rata_periods: set of rows
    rules,       \* table split_billing_rules with the allocations of each rule
    rates,       \* table exchange_rates: set of rows
    call         \* a helper call observed: its arguments, progress and result

vars == <<deposits, usages, slips, nextBatch, lastOp, sessions, gen,
          periods, rules, rates, call>>

\* the tables the deposit and slip handlers do not write
settings == <<periods, rules, rates, call>>

\* call holds the result of a helper as computed from the tables of the
\* state; a request that writes those tables clears it
NoCall == <<>>

(* ---------- helpers over tables ---------- *)
DepositIds == 1..Len(deposits)

RECURSIVE SumSeq(_)
SumSeq(s) == IF s = <<>> THEN 0 ELSE Head(s) + SumSeq(Tail(s))

\* the amounts of the usage rows of table us recorded against deposit d
UsageAmounts(us, d) ==
    LET rows == SelectSeq(us, LAMBDA u : u.deposit_id = d)
    IN  [i \in 1..Len(rows) |-> rows[i].amount]

UsedOf(us, d) == SumSeq(UsageAmounts(us, d))

\* ORDER BY deposit_date (ties in insertion order) of a set of deposit ids
RECURSIVE OrderByDate(_, _)
OrderByDate(deps, ids) ==
    IF ids = {} THEN <<>>
    ELSE LET first == CHOOSE i \in ids : \A j \in ids :
                          \/ deps[i].deposit_date < deps[j].deposit_date
                          \/ /\ deps[i].deposit_date = deps[j].deposit_date
                             /\ i <= j
         IN  <<first>> \o OrderByDate(deps, ids \ {first})

Min(a, b) == IF a <= b THEN a ELSE b

(* ---------- Deposit rows ---------- *)
\* Deposit(...) as the two create endpoints construct it: remaining_amount
\* is the charged amount and is_exhausted takes the column default False.
NewDeposit(profile_id, contract_profile_id, deposit_date, amount, currency) ==
    [profile_id |-> profile_id,
     contract_profile_id |-> contract_profile_id,
     deposit_date |-> deposit_date,
     amount |-> amount,
     currency |-> currency,
     remaining_amount |-> amount,
     is_exhausted |-> FALSE]

NewUsage(deposit_id, amount, slip_batch_id) ==
    [deposit_id |-> deposit_id, amount |-> amount, slip_batch_id |-> slip_batch_id]

\* deposit.remaining_amount -= use; if it is <= 0: 0 and exhausted
Consume(dep, use) ==
    LET left == dep.remaining_amount - use
    IN  IF left <= 0
        THEN [dep EXCEPT !.remaining_amount = 0, !.is_exhausted = TRUE]
        ELSE [dep EXCEPT !.remaining_amount = left]

\* the response to a request as a client sees it.  Responses are not part
\* of the tables: a specification that starts with lastOp = NotObserved
\* leaves them out of its states, the others record the last one.
NotObserved == [op |-> "none", result |-> "none"]
Op(name, result) ==
    IF lastOp = NotObserved THEN lastOp ELSE [op |-> name, result |-> result]

(* ---------- POST /deposits ---------- *)
create_deposit(profile_id, deposit_date, amount, currency) ==
    /\ Len(deposits) < MaxDeposits
    /\ deposits' = Append(deposits,
                       NewDeposit(profile_id, 0, deposit_date, amount, currency))
    /\ lastOp' = Op("create_deposit", "ok")
    /\ UNCHANGED <<usages, slips, nextBatch, sessions, gen, settings>>

create_contract_deposit(contract_profile_id, deposit_date, amount, currency) ==
    /\ Len(deposits) < MaxDeposits
    /\ deposits' = Append(deposits,
                       NewDeposit(0, contract_profile_id, deposit_date, amount, currency))
    /\ lastOp' = Op("create_contract_deposit", "ok")
    /\ UNCHANGED <<usages, slips, nextBatch, sessions, gen, settings>>

(* ---------- PATCH /deposits/{deposit_id} ---------- *)
NoAmount == 0 - 1    \* data.amount is None
NoDate == 0          \* data.deposit_date is None

\* the amount branch: the difference of the amounts is added to the
\* remaining balance, a result <= 0 is stored as 0 and exhausted
update_deposit_fields(dep, deposit_date, currency, amount) ==
    LET d1 == IF deposit_date /= NoDate THEN [dep EXCEPT !.deposit_date = deposit_date] ELSE dep
        d2 == IF currency /= Null THEN [d1 EXCEPT !.currency = currency] ELSE d1
    IN  IF amount /= NoAmount /\ amount /= d2.amount
        THEN LET diff == amount - d2.amount
                 new_remaining == d2.remaining_amount + diff
             IN  IF new_remaining <= 0
                 THEN [d2 EXCEPT !.amount = amount, !.remaining_amount = 0,
                                 !.is_exhausted = TRUE]
                 ELSE [d2 EXCEPT !.amount = amount, !.remaining_amount = new_remaining,
                                 !.is_exhausted = FALSE]
        ELSE d2

update_deposit(deposit_id, deposit_date, currency, amount) ==
    /\ deposit_id \in DepositIds
    /\ IF deposits[deposit_id].profile_id = 0
       THEN /\ lastOp' = Op("update_deposit", "not_found")
            /\ UNCHANGED deposits
       ELSE /\ deposits' = [deposits EXCEPT ![deposit_id] =
                               update_deposit_fields(@, deposit_date, currency, amount)]
            /\ lastOp' = Op("update_deposit", "ok")
    /\ UNCHANGED <<usages, slips, nextBatch, sessions, gen, settings>>

update_contract_deposit(deposit_id, deposit_date, currency, amount) ==
    /\ deposit_id \in DepositIds
    /\ IF deposits[deposit_id].contract_profile_id = 0
       THEN /\ lastOp' = Op("update_contract_deposit", "not_found")
            /\ UNCHANGED deposits
       ELSE /\ deposits' = [deposits EXCEPT ![deposit_id] =
                               update_deposit_fields(@, deposit_date, currency, amount)]
            /\ lastOp' = Op("update_contract_deposit", "ok")
    /\ UNCHANGED <<usages, slips, nextBatch, sessions, gen, settings>>

(* ---------- POST /deposits/use ---------- *)
use_deposit(deposit_id, amount, slip_batch_id) ==
    /\ deposit_id \in DepositIds
    /\ LET deposit == deposits[deposit_id]
       IN  IF deposit.is_exhausted
           THEN /\ lastOp' = Op("use_deposit", "already_exhausted")
                /\ UNCHANGED <<deposits, usages>>
           ELSE IF amount > deposit.remaining_amount
           THEN /\ lastOp' = Op("use_deposit", "insufficient_balance")
                /\ UNCHANGED <<deposits, usages>>
           ELSE /\ Len(usages) < MaxUsages
                /\ usages' = Append(usages, NewUsage(deposit_id, amount, slip_batch_id))
                /\ deposits' = [deposits EXCEPT ![deposit_id] = Consume(deposit, amount)]
                /\ lastOp' = Op("use_deposit", "ok")
    /\ UNCHANGED <<slips, nextBatch, sessions, gen, settings>>

(* ---------- FIFO use (services/deposit.py and the two use-fifo endpoints) ---------- *)
OwnerOf(dep, filter_column) ==
    IF filter_column = "profile_id" THEN dep.profile_id ELSE dep.contract_profile_id

\* the same query without its ORDER BY: the rows in insertion order
AvailableDepositsUnordered(deps, filter_column, filter_value) ==
    OrderByDate([i \in 1..Len(deps) |-> [deps[i] EXCEPT !.deposit_date = 0]],
                {i \in 1..Len(deps) :
                    /\ OwnerOf(deps[i], filter_column) = filter_value
                    /\ ~deps[i].is_exhausted})

\* db.query(Deposit).filter(filter_column == filter_value,
\*                          is_exhausted == False).order_by(deposit_date)
AvailableDeposits(deps, filter_column, filter_value) ==
    OrderByDate(deps, {i \in 1..Len(deps) :
                          /\ OwnerOf(deps[i], filter_column) = filter_value
                          /\ ~deps[i].is_exhausted})

TotalAvailable(deps, order) ==
    SumSeq([i \in 1..Len(order) |-> deps[order[i]].remaining_amount])

\* the consumption loop over the selected deposits: the state is the
\* deposits table, the usage rows added and the amount still to use
RECURSIVE FifoLoop(_, _, _, _, _)
FifoLoop(deps, added, order, remaining_to_use, slip_batch_id) ==
    IF order = <<>> \/ remaining_to_use <= 0
    THEN [deposits |-> deps, added |-> added]
    ELSE LET id == Head(order)
             use_from_this == Min(remaining_to_use, deps[id].remaining_amount)
         IN  FifoLoop([deps EXCEPT ![id] = Consume(@, use_from_this)],
                      Append(added, NewUsage(id, use_from_this, slip_batch_id)),
                      Tail(order),
                      remaining_to_use - use_from_this,
                      slip_batch_id)

\* the consumption without the comparison of amount and total_available
deposit_fifo_use_unchecked(deps, filter_column, filter_value, amount, slip_batch_id) ==
    LET r == FifoLoop(deps, <<>>, AvailableDeposits(deps, filter_column, filter_value),
                      amount, slip_batch_id)
    IN  [result |-> "ok", deposits |-> r.deposits, added |-> r.added]

\* the result of deposit_fifo_use: the insufficient-balance error and no
\* change, or the tables after the loop
deposit_fifo_use(deps, filter_column, filter_value, amount, slip_batch_id) ==
    LET order == AvailableDeposits(deps, filter_column, filter_value)
        total_available == TotalAvailable(deps, order)
    IN  IF amount > total_available
        THEN [result |-> "insufficient_balance", deposits |-> deps, added |-> <<>>]
        ELSE LET r == FifoLoop(deps, <<>>, order, amount, slip_batch_id)
             IN  [result |-> "ok", deposits |-> r.deposits, added |-> r.added]

UseFifo(name, filter_column, filter_value, amount, slip_batch_id) ==
    LET r == deposit_fifo_use(deposits, filter_column, filter_value, amount, slip_batch_id)
    IN  /\ Len(usages) + Len(r.added) <= MaxUsages
        /\ deposits' = r.deposits
        /\ usages' = usages \o r.added
        /\ lastOp' = Op(name, r.result)
        /\ UNCHANGED <<slips, nextBatch, sessions, gen, settings>>

use_deposit_fifo(profile_id, amount, slip_batch_id) ==
    UseFifo("use_deposit_fifo", "profile_id", profile_id, amount, slip_batch_id)

use_contract_deposit_fifo(contract_profile_id, amount, slip_batch_id) ==
    UseFifo("use_contract_deposit_fifo", "contract_profile_id",
            contract_profile_id, amount, slip_batch_id)

(* ---------- master data read by slip generation ---------- *)
\* uidA: account of an overseas company with a contract billing profile
\* uidB: a UID with no account mapping (no contract, no company, no BP)
\* uidC: account of a company flagged as internal cost
Uids == <<"uidA", "uidB", "uidC">>

NoAccount ==
    [contract_seq |-> 0, company_seq |-> 0, company_name |-> Null,
     is_internal_cost |-> FALSE, is_overseas |-> FALSE, bp_number |-> Null,
     contract_profile_id |-> 0]

Account(uid) ==
    CASE uid = "uidA" ->
           [contract_seq |-> 1, company_seq |-> 1, company_name |-> "Company1",
            is_internal_cost |-> FALSE, is_overseas |-> TRUE, bp_number |-> "BP1",
            contract_profile_id |-> 1]
      [] uid = "uidC" ->
           [contract_seq |-> 3, company_seq |-> 3, company_name |-> "Company3",
            is_internal_cost |-> TRUE, is_overseas |-> FALSE, bp_number |-> "BP3",
            contract_profile_id |-> 0]
      [] OTHER -> NoAccount

\* BPCode rows: bp_number -> name_local
BPCodes == {"BP1"}
BPName(bp_number) == "BPName1"

(* ---------- split rules (split_billing.py) ---------- *)
Allocation(id, split_type, split_value, priority, target_company_seq, target_bp) ==
    [allocation_id |-> id, split_type |-> split_type, split_value |-> split_value,
     priority |-> priority, target_company_seq |-> target_company_seq,
     target_company_bp |-> target_bp]

\* the rule tables a request may find for uidA: no active rule, or a rule
NoRule == <<>>
Rule3030 == <<Allocation(1, "percentage", 30, 0, 4, "BP1"),
              Allocation(2, "percentage", 30, 0, 5, Null)>>
RuleFixed == <<Allocation(3, "percentage", 50, 1, 5, Null),
               Allocation(4, "fixed_amount", 1, 0, 4, "BP1")>>
SplitRules == {NoRule, Rule3030, RuleFixed}

\* Decimal.quantize(0.01, ROUND_HALF_UP) of amount * percent / 100, in cents
RoundHalfUpDiv100(n) == (2 * n + 100) \div 200

\* the allocations ordered by id alone
RECURSIVE SortAllocationsById(_)
SortAllocationsById(allocs) ==
    IF allocs = {} THEN <<>>
    ELSE LET first == CHOOSE a \in allocs : \A b \in allocs :
                          a.allocation_id <= b.allocation_id
         IN  <<first>> \o SortAllocationsById(allocs \ {first})

\* sorted(rule.allocations, key=lambda x: (x.priority, x.id))
RECURSIVE SortAllocations(_)
SortAllocations(allocs) ==
    IF allocs = {} THEN <<>>
    ELSE LET first == CHOOSE a \in allocs : \A b \in allocs :
                          \/ a.priority < b.priority
                          \/ a.priority = b.priority /\ a.allocation_id <= b.allocation_id
         IN  <<first>> \o SortAllocations(allocs \ {first})

\* the loop without the min(..., remaining) of either branch
RECURSIVE SplitLoopUncapped(_, _, _, _)
SplitLoopUncapped(allocations, amount_usd, remaining, results) ==
    IF allocations = <<>> \/ remaining <= 0
    THEN [allocations |-> results, remaining |-> remaining]
    ELSE LET alloc == Head(allocations)
             alloc_amount ==
                 IF alloc.split_type = "fixed_amount"
                 THEN alloc.split_value
                 ELSE RoundHalfUpDiv100(amount_usd * alloc.split_value)
         IN  SplitLoopUncapped(Tail(allocations), amount_usd, remaining - alloc_amount,
                       Append(results, [allocation_id |-> alloc.allocation_id,
                                        target_company_seq |-> alloc.target_company_seq,
                                        target_company_bp |-> alloc.target_company_bp,
                                        allocated_amount_usd |-> alloc_amount]))

RECURSIVE SplitLoop(_, _, _, _)
SplitLoop(allocations, amount_usd, remaining, results) ==
    IF allocations = <<>> \/ remaining <= 0
    THEN [allocations |-> results, remaining |-> remaining]
    ELSE LET alloc == Head(allocations)
             alloc_amount ==
                 IF alloc.split_type = "fixed_amount"
                 THEN Min(alloc.split_value, remaining)
                 ELSE Min(RoundHalfUpDiv100(amount_usd * alloc.split_value), remaining)
         IN  SplitLoop(Tail(allocations), amount_usd, remaining - alloc_amount,
                       Append(results, [allocation_id |-> alloc.allocation_id,
                                        target_company_seq |-> alloc.target_company_seq,
                                        target_company_bp |-> alloc.target_company_bp,
                                        allocated_amount_usd |-> alloc_amount]))

\* rule is the sequence of allocations of the active rule of the UID;
\* NoRule stands for the None the function returns without a rule
calculate_split_amounts(rule, amount_usd) ==
    IF rule = NoRule
    THEN [allocations |-> <<>>, remaining |-> amount_usd]
    ELSE SplitLoop(SortAllocations({rule[i] : i \in 1..Len(rule)}),
                   amount_usd, amount_usd, <<>>)

(* ---------- slip rows ---------- *)
SlipRecord(batch_id, seqno, source_type, uid, partner, partner_name) ==
    [batch_id |-> batch_id, seqno |-> seqno, source_type |-> source_type,
     uid |-> uid, partner |-> partner, zzcon |-> partner,
     partner_name |-> partner_name, is_confirmed |-> FALSE]

(* ---------- POST /generate ---------- *)
Absent == 0 - 1   \* the UID has no billing row in the cycle

\* the billing summary of a cycle: the total per UID, Absent for a UID with
\* no billing row.  Totals of uidB and uidC only decide whether a row is
\* emitted, so one positive value stands for all of them.
BillingSummaries ==
    {b \in [{"uidA", "uidB", "uidC"} -> Amounts \cup {Absent}] :
        b["uidB"] \in {Absent, 1} /\ b["uidC"] \in {Absent, 1}}

\* a request together with the tables it reads: the billing summary, the
\* split rule of uidA and the contracts with an applicable additional charge.
\* A switched-off option is tried with one setting of the table it ignores.
Requests ==
    [billing : BillingSummaries, apply_split_billing : {TRUE},
     include_additional_charges : {TRUE}, rule : SplitRules, charges : {{}, {1}}]
    \cup
    [billing : BillingSummaries, apply_split_billing : {FALSE},
     include_additional_charges : {FALSE}, rule : {Rule3030}, charges : {{1}}]

\* the requests on a cycle that bills uidA only, with its split rule applied
LedgerRequests ==
    {req \in Requests : /\ req.billing["uidB"] = Absent /\ req.billing["uidC"] = Absent
                        /\ req.apply_split_billing /\ req.charges = {}
                        /\ req.rule \in {NoRule, Rule3030}}

\* the deposit step of the loop body: the non-exhausted non-KRW deposits of
\* the contract profile by deposit_date, consumed while remaining_usd > 0
GenAvailableDeposits(deps, contract_profile_id) ==
    OrderByDate(deps, {i \in 1..Len(deps) :
                          /\ deps[i].contract_profile_id = contract_profile_id
                          /\ ~deps[i].is_exhausted
                          /\ deps[i].currency /= "KRW"})

RECURSIVE GenFifoLoop(_, _, _, _, _)
GenFifoLoop(deps, added, available_deposits, remaining_usd, batch_id) ==
    IF available_deposits = <<>> \/ remaining_usd <= 0
    THEN [deposits |-> deps, added |-> added]
    ELSE LET id == Head(available_deposits)
             use == Min(remaining_usd, deps[id].remaining_amount)
         IN  GenFifoLoop([deps EXCEPT ![id] = Consume(@, use)],
                         Append(added, NewUsage(id, use, batch_id)),
                         Tail(available_deposits),
                         remaining_usd - use,
                         batch_id)

\* the rows of a split without the seqno += 1 after db.add(split_slip)
RECURSIVE SplitRowsSameSeqno(_, _, _, _)
SplitRowsSameSeqno(allocations, batch_id, uid, seqno) ==
    IF allocations = <<>> THEN <<>>
    ELSE LET alloc == Head(allocations)
         IN  IF alloc.allocated_amount_usd <= 0
             THEN SplitRowsSameSeqno(Tail(allocations), batch_id, uid, seqno)
             ELSE <<SlipRecord(batch_id, seqno, "split", uid,
                               alloc.target_company_bp, "SplitTarget")>>
                  \o SplitRowsSameSeqno(Tail(allocations), batch_id, uid, seqno)

\* the rows of a split: one per allocation with a positive amount
RECURSIVE SplitRows(_, _, _, _)
SplitRows(allocations, batch_id, uid, seqno) ==
    IF allocations = <<>> THEN <<>>
    ELSE LET alloc == Head(allocations)
         IN  IF alloc.allocated_amount_usd <= 0
             THEN SplitRows(Tail(allocations), batch_id, uid, seqno)
             ELSE <<SlipRecord(batch_id, seqno, "split", uid,
                               alloc.target_company_bp, "SplitTarget")>>
                  \o SplitRows(Tail(allocations), batch_id, uid, seqno + 1)

\* one pass of the loop over billing_summary; st is the work of the run so
\* far: the deposits as changed, the usage rows and slip rows added
GenUid(st, uid, req, batch_id) ==
    LET amount_usd == req.billing[uid]
        acct == Account(uid)
    IN  IF amount_usd <= 0 THEN st
        ELSE IF acct.is_internal_cost THEN st
        ELSE
        LET available_deposits ==
                IF acct.is_overseas /\ acct.contract_profile_id /= 0 /\ amount_usd > 0
                THEN GenAvailableDeposits(st.deposits, acct.contract_profile_id)
                ELSE <<>>
            fifo == GenFifoLoop(st.deposits, st.added, available_deposits,
                                amount_usd, batch_id)
            split_result ==
                IF req.apply_split_billing /\ uid = "uidA"
                THEN calculate_split_amounts(req.rule, amount_usd)
                ELSE calculate_split_amounts(NoRule, amount_usd)
            split_applied == split_result.allocations /= <<>>
            rows == IF split_applied
                    THEN SplitRows(split_result.allocations, batch_id, uid, st.seqno)
                    ELSE <<SlipRecord(batch_id, st.seqno, "billing", uid,
                                      acct.bp_number, acct.company_name)>>
        IN  [deposits |-> fifo.deposits, added |-> fifo.added,
             rows |-> st.rows \o rows, seqno |-> st.seqno + Len(rows)]

\* the additional-charge loop: one row per contract that has a charge, for
\* the enabled contract of every UID of the billing summary
RECURSIVE GenCharges(_, _, _, _)
GenCharges(st, uids, req, batch_id) ==
    IF uids = <<>> THEN st
    ELSE LET acct == Account(Head(uids))
         IN  IF acct.contract_seq /= 0 /\ acct.contract_seq \in req.charges
             THEN GenCharges([st EXCEPT
                                !.rows = Append(@, SlipRecord(batch_id, st.seqno,
                                                    "additional_charge", Null,
                                                    acct.bp_number, acct.company_name)),
                                !.seqno = @ + 1],
                             Tail(uids), req, batch_id)
             ELSE GenCharges(st, Tail(uids), req, batch_id)

RECURSIVE GenLoop(_, _, _, _)
GenLoop(st, uids, req, batch_id) ==
    IF uids = <<>> THEN st
    ELSE GenLoop(GenUid(st, Head(uids), req, batch_id), Tail(uids), req, batch_id)

PresentUids(req) == SelectSeq(Uids, LAMBDA u : req.billing[u] /= Absent)

\* slips_created = [], seqno = 1 and the deposits as the session loads them
GenStart(deps) == [deposits |-> deps, added |-> <<>>, rows |-> <<>>, seqno |-> 1]

\* everything a run adds to the session before its db.commit()
GenerateRun(deps, req, batch_id) ==
    LET st == GenLoop(GenStart(deps), PresentUids(req), req, batch_id)
    IN  IF req.include_additional_charges
        THEN GenCharges(st, PresentUids(req), req, batch_id)
        ELSE st

SeqToSet(s) == {s[i] : i \in 1..Len(s)}

\* "total_slips": seqno - 1 of the response
total_slips(run) == run.seqno - 1

\* the handler, in a specification that follows max_batches batches
generate_slips_upto(req, max_batches) ==
    /\ nextBatch <= max_batches
    /\ IF PresentUids(req) = <<>>
       THEN /\ lastOp' = Op("generate_slips", "no_billing_data")
            /\ UNCHANGED <<deposits, usages, slips, nextBatch>>
       ELSE LET run == GenerateRun(deposits, req, nextBatch)
            IN  /\ Len(usages) + Len(run.added) <= MaxUsages
                /\ deposits' = run.deposits
                /\ usages' = usages \o run.added
                /\ slips' = slips \cup SeqToSet(run.rows)
                /\ nextBatch' = nextBatch + 1
                /\ lastOp' = Op("generate_slips", "ok")
    /\ UNCHANGED <<sessions, gen, settings>>

generate_slips(req) == generate_slips_upto(req, MaxBatches)

(* ---------- PATCH /{slip_id} ---------- *)
Unset == "unset"   \* the field is not in model_dump(exclude_unset=True)
SlipIds == {<<s.batch_id, s.seqno>> : s \in slips}
SlipById(slip_id) == CHOOSE s \in slips : <<s.batch_id, s.seqno>> = slip_id

\* the setattr loop: partner also sets zzcon, and partner_name when the
\* BP code exists
ApplySlipUpdate(slip, partner) ==
    IF partner = Unset THEN slip
    ELSE LET s1 == [slip EXCEPT !.partner = partner, !.zzcon = partner]
         IN  IF partner \in BPCodes
             THEN [s1 EXCEPT !.partner_name = BPName(partner)]
             ELSE s1

\* the handler without its check of is_confirmed
update_slip_unchecked(slip_id, partner) ==
    /\ slip_id \in SlipIds
    /\ slips' = (slips \ {SlipById(slip_id)})
                    \cup {ApplySlipUpdate(SlipById(slip_id), partner)}
    /\ lastOp' = Op("update_slip", "ok")
    /\ UNCHANGED <<deposits, usages, nextBatch, sessions, gen, settings>>

update_slip(slip_id, partner) ==
    /\ slip_id \in SlipIds
    /\ LET slip == SlipById(slip_id)
       IN  IF slip.is_confirmed
           THEN /\ lastOp' = Op("update_slip", "confirmed")
                /\ UNCHANGED slips
           ELSE /\ slips' = (slips \ {slip}) \cup {ApplySlipUpdate(slip, partner)}
                /\ lastOp' = Op("update_slip", "ok")
    /\ UNCHANGED <<deposits, usages, nextBatch, sessions, gen, settings>>

(* ---------- POST /confirm/{batch_id} ---------- *)
BatchSlips(batch_id) == {s \in slips : s.batch_id = batch_id}

\* not s.partner: None or the empty string
NoPartner(s) == s.partner = Null \/ s.partner = ""

\* the handler without its check of the partner codes
confirm_slips_unchecked(batch_id) ==
    /\ IF BatchSlips(batch_id) = {}
       THEN /\ lastOp' = Op("confirm_slips", "not_found")
            /\ UNCHANGED slips
       ELSE /\ slips' = {IF s.batch_id = batch_id
                         THEN [s EXCEPT !.is_confirmed = TRUE] ELSE s : s \in slips}
            /\ lastOp' = Op("confirm_slips", "ok")
    /\ UNCHANGED <<deposits, usages, nextBatch, sessions, gen, settings>>

confirm_slips(batch_id) ==
    /\ IF BatchSlips(batch_id) = {}
       THEN /\ lastOp' = Op("confirm_slips", "not_found")
            /\ UNCHANGED slips
       ELSE IF \E s \in BatchSlips(batch_id) : NoPartner(s)
       THEN /\ lastOp' = Op("confirm_slips", "no_bp")
            /\ UNCHANGED slips
       ELSE /\ slips' = {IF s.batch_id = batch_id
                         THEN [s EXCEPT !.is_confirmed = TRUE] ELSE s : s \in slips}
            /\ lastOp' = Op("confirm_slips", "ok")
    /\ UNCHANGED <<deposits, usages, nextBatch, sessions, gen, settings>>

(* ---------- DELETE /batch/{batch_id} ---------- *)
\* the restore loop over the usage rows of the batch
RECURSIVE RestoreUsages(_, _)
RestoreUsages(deps, batch_usages) ==
    IF batch_usages = <<>> THEN deps
    ELSE LET usage == Head(batch_usages)
         IN  RestoreUsages(
                 IF usage.deposit_id \in 1..Len(deps)
                 THEN [deps EXCEPT ![usage.deposit_id] =
                          [@ EXCEPT !.remaining_amount = @ + usage.amount,
                                    !.is_exhausted = FALSE]]
                 ELSE deps,
                 Tail(batch_usages))

\* the handler without its check of the confirmed rows
delete_batch_result_unchecked(deps, us, sl, batch_id) ==
    LET batch == {s \in sl : s.batch_id = batch_id}
    IN  IF batch = {}
        THEN [result |-> "not_found", deposits |-> deps, usages |-> us, slips |-> sl]
        ELSE [result |-> "ok",
              deposits |-> RestoreUsages(deps,
                               SelectSeq(us, LAMBDA u : u.slip_batch_id = batch_id)),
              usages |-> SelectSeq(us, LAMBDA u : u.slip_batch_id /= batch_id),
              slips |-> sl \ batch]

\* the handler on given tables: its response and the tables it leaves
delete_batch_result(deps, us, sl, batch_id) ==
    LET batch == {s \in sl : s.batch_id = batch_id}
    IN  IF batch = {}
        THEN [result |-> "not_found", deposits |-> deps, usages |-> us, slips |-> sl]
        ELSE IF \E s \in batch : s.is_confirmed
        THEN [result |-> "confirmed", deposits |-> deps, usages |-> us, slips |-> sl]
        ELSE [result |-> "ok",
              deposits |-> RestoreUsages(deps,
                               SelectSeq(us, LAMBDA u : u.slip_batch_id = batch_id)),
              usages |-> SelectSeq(us, LAMBDA u : u.slip_batch_id /= batch_id),
              slips |-> sl \ batch]

delete_batch(batch_id) ==
    /\ LET r == delete_batch_result(deposits, usages, slips, batch_id)
       IN  /\ deposits' = r.deposits
           /\ usages' = r.usages
           /\ slips' = r.slips
           /\ lastOp' = Op("delete_batch", r.result)
    /\ UNCHANGED <<nextBatch, sessions, gen, settings>>

(* ---------- the requests, one at a time ---------- *)
BatchIds == 1..MaxBatches
NoBatch == 0      \* slip_batch_id is None

\* the bodies of a PATCH request: a new deposit_date or a new amount
DepositUpdates ==
    [deposit_date : Dates, currency : {Null}, amount : {NoAmount}]
    \cup [deposit_date : {NoDate}, currency : {Null}, amount : Amounts]

\* the amounts of a use request
UseAmounts == 1..MaxAmount

Init ==
    /\ deposits = <<>>
    /\ usages = <<>>
    /\ slips = {}
    /\ nextBatch = 1
    /\ lastOp = NotObserved
    /\ sessions = <<>>
    /\ gen = <<>>
    /\ periods = {}
    /\ rules = <<>>
    /\ rates = {}
    /\ call = NoCall

Next ==
    \/ \E p \in ProfileIds, d \in Dates, a \in Amounts :
           create_deposit(p, d, a, "KRW")
    \/ \E p \in ContractProfileIds, d \in Dates, a \in Amounts, c \in Currencies :
           create_contract_deposit(p, d, a, c)
    \/ \E id \in DepositIds, u \in DepositUpdates :
           update_deposit(id, u.deposit_date, u.currency, u.amount)
    \/ \E id \in DepositIds, u \in DepositUpdates :
           update_contract_deposit(id, u.deposit_date, u.currency, u.amount)
    \/ \E id \in DepositIds, a \in UseAmounts : use_deposit(id, a, NoBatch)
    \/ \E p \in ProfileIds, a \in UseAmounts : use_deposit_fifo(p, a, NoBatch)
    \/ \E p \in ContractProfileIds, a \in UseAmounts :
           use_contract_deposit_fifo(p, a, NoBatch)
    \/ \E req \in LedgerRequests : generate_slips(req)
    \/ \E b \in BatchIds : confirm_slips(b)
    \/ \E b \in BatchIds : delete_batch(b)

Spec == Init /\ [][Next]_vars

(* ---------- the deposit ledger: balance invariants ---------- *)

\* C1: every deposit has is_exhausted = true exactly when its
\* remaining_amount is 0, in every state the requests can reach.
C1_ExhaustedIffZero ==
    \A i \in DepositIds :
        deposits[i].is_exhausted <=> (deposits[i].remaining_amount = 0)

\* C2: every deposit has 0 <= remaining_amount <= amount, in every state the
\* requests can reach, also after an amount correction followed by the
\* deletion of a batch that consumed from the deposit.
C2_RemainingWithinAmount ==
    \A i \in DepositIds :
        /\ 0 <= deposits[i].remaining_amount
        /\ deposits[i].remaining_amount <= deposits[i].amount

\* C3: the amounts of the usage rows recorded against a deposit never sum
\* to more than the amount of the deposit.
C3_UsagesWithinAmount ==
    \A i \in DepositIds : UsedOf(usages, i) <= deposits[i].amount

\* C8: deleting an unconfirmed batch adds back the amount of every usage
\* row of the batch, clears is_exhausted and deletes those rows, so that
\* delete_batch of the batch a generation run has just produced leaves
\* remaining_amount and is_exhausted of every deposit as they were before
\* the run, and no usage row of the batch.
C8_DeleteRestoresGeneration ==
    [][\A req \in LedgerRequests :
          (generate_slips(req) /\ nextBatch' /= nextBatch) =>
             LET after == delete_batch_result(deposits', usages', slips', nextBatch)
             IN  /\ \A i \in DepositIds :
                       /\ after.deposits[i].remaining_amount = deposits[i].remaining_amount
                       /\ after.deposits[i].is_exhausted = deposits[i].is_exhausted
                 /\ \A k \in 1..Len(after.usages) :
                       after.usages[k].slip_batch_id /= nextBatch]_vars

(* ---------- FIFO consumption, with the responses observed ---------- *)
InitObserved ==
    /\ deposits = <<>>
    /\ usages = <<>>
    /\ slips = {}
    /\ nextBatch = 1
    /\ lastOp = [op |-> "init", result |-> "ok"]
    /\ sessions = <<>>
    /\ gen = <<>>
    /\ periods = {}
    /\ rules = <<>>
    /\ rates = {}
    /\ call = NoCall

\* the requests that create deposits and consume them in FIFO order
NextFifo ==
    \/ \E p \in ProfileIds, d \in Dates, a \in Amounts :
           create_deposit(p, d, a, "KRW")
    \/ \E p \in ContractProfileIds, d \in Dates, a \in Amounts, c \in Currencies :
           create_contract_deposit(p, d, a, c)
    \/ \E id \in DepositIds, d \in Dates : update_deposit(id, d, Null, NoAmount)
    \/ \E id \in DepositIds, d \in Dates : update_contract_deposit(id, d, Null, NoAmount)
    \/ \E p \in ProfileIds, a \in UseAmounts : use_deposit_fifo(p, a, NoBatch)
    \/ \E p \in ContractProfileIds, a \in UseAmounts :
           use_contract_deposit_fifo(p, a, NoBatch)
    \/ \E req \in LedgerRequests : generate_slips(req)
    \/ \E b \in BatchIds : delete_batch(b)

SpecFifo == InitObserved /\ [][NextFifo]_vars

\* deposit i belongs to the same owner profile as deposit j
SameOwner(i, j) ==
    /\ deposits[i].profile_id = deposits[j].profile_id
    /\ deposits[i].contract_profile_id = deposits[j].contract_profile_id

\* the step takes an amount from deposit i
Taken(i) == deposits'[i].remaining_amount < deposits[i].remaining_amount

\* the step is a call of a use-fifo endpoint / a run of slip generation
FifoEndpointStep ==
    \/ \E p \in ProfileIds, a \in UseAmounts : use_deposit_fifo(p, a, NoBatch)
    \/ \E p \in ContractProfileIds, a \in UseAmounts :
           use_contract_deposit_fifo(p, a, NoBatch)

GenerationStep == \E req \in LedgerRequests : generate_slips(req)

\* every deposit among ids of the owner of i that is dated before i and had
\* a balance before the step has balance 0 after it
EarlierDrained(i, ids) ==
    \A j \in ids :
        (/\ SameOwner(i, j)
         /\ deposits[j].deposit_date < deposits[i].deposit_date
         /\ deposits[j].remaining_amount > 0)
        => deposits'[j].remaining_amount = 0

\* C4 as stated: whenever a FIFO consumption (a use-fifo endpoint or the
\* deposit step of slip generation) takes an amount from a deposit, every
\* earlier-dated deposit of the same owner profile that had a balance before
\* the call has balance 0 after it.
C4_FifoOrderAllDeposits ==
    [][(FifoEndpointStep \/ GenerationStep)
          => \A i \in DepositIds : Taken(i) => EarlierDrained(i, DepositIds)]_vars

\* C4 as the handlers keep it: the order holds among the deposits the
\* consumption selects, which for a use-fifo endpoint are all deposits of
\* the owner and for slip generation the deposits of the contract profile in
\* a currency other than KRW.
C4_FifoOrderAmongSelected ==
    [][/\ FifoEndpointStep
          => \A i \in DepositIds : Taken(i) => EarlierDrained(i, DepositIds)
       /\ GenerationStep
          => \A i \in DepositIds :
                Taken(i) => EarlierDrained(i, {j \in DepositIds :
                                                 deposits[j].currency /= "KRW"})]_vars

\* a generation run has just drained the earlier of two foreign-currency
\* deposits of a contract profile and taken the rest from the later one
C4_Witness ==
    /\ lastOp = [op |-> "generate_slips", result |-> "ok"]
    /\ \E i, j \in DepositIds :
          /\ SameOwner(i, j)
          /\ deposits[j].deposit_date < deposits[i].deposit_date
          /\ deposits[j].remaining_amount = 0
          /\ \E m, n \in 1..Len(usages) :
                /\ m < n
                /\ usages[m] = NewUsage(j, deposits[j].amount, nextBatch - 1)
                /\ usages[n].deposit_id = i
                /\ usages[n].amount > 0
                /\ usages[n].slip_batch_id = nextBatch - 1

\* the sum of remaining_amount over the non-exhausted deposits of an owner
RECURSIVE OwnerBalance(_, _, _)
OwnerBalance(filter_column, filter_value, ids) ==
    IF ids = {} THEN 0
    ELSE LET i == CHOOSE x \in ids : TRUE
             rest == OwnerBalance(filter_column, filter_value, ids \ {i})
         IN  IF OwnerOf(deposits[i], filter_column) = filter_value
                /\ ~deposits[i].is_exhausted
             THEN deposits[i].remaining_amount + rest
             ELSE rest

Rejected ==
    /\ lastOp'.result = "insufficient_balance"
    /\ deposits' = deposits
    /\ usages' = usages

\* C5: a use-fifo call that requests more than the sum of remaining_amount
\* over the non-exhausted deposits of the owner fails with the
\* insufficient-balance error, changes no deposit and adds no usage row.
C5_InsufficientBalanceNoMutation ==
    [][/\ \A p \in ProfileIds, a \in UseAmounts :
             (/\ use_deposit_fifo(p, a, NoBatch)
              /\ a > OwnerBalance("profile_id", p, DepositIds))
             => Rejected
       /\ \A p \in ContractProfileIds, a \in UseAmounts :
             (/\ use_contract_deposit_fifo(p, a, NoBatch)
              /\ a > OwnerBalance("contract_profile_id", p, DepositIds))
             => Rejected]_vars

\* a use-fifo call on a profile with a positive balance has just been
\* rejected as exceeding it
C5_Witness ==
    /\ lastOp = [op |-> "use_deposit_fifo", result |-> "insufficient_balance"]
    /\ OwnerBalance("profile_id", 1, DepositIds) > 0
    /\ \E i \in DepositIds :
          /\ deposits[i].profile_id = 1
          /\ deposits[i].remaining_amount = deposits[i].amount
    /\ usages = <<>>

(* ---------- concurrent use-fifo requests ---------- *)
\* The endpoints are plain functions, which the framework runs on worker
\* threads, each request with a database session of its own.  A request
\* first loads the deposits of the profile into its session (the query and
\* the comparison with the request amount), then runs the loop on the loaded
\* objects and commits: the commit writes the values the loop computed.
\* Neither the query nor the session takes a lock on the rows.
SessionIds == 1..MaxSessions
Idle == [pc |-> "idle", filter_value |-> 0, amount |-> 0, deps |-> <<>>]

\* use_deposit_fifo up to the comparison of amount and total_available
fifo_read(s, profile_id, amount) ==
    /\ sessions[s].pc = "idle"
    /\ LET order == AvailableDeposits(deposits, "profile_id", profile_id)
       IN  IF amount > TotalAvailable(deposits, order)
           THEN UNCHANGED sessions
           ELSE sessions' = [sessions EXCEPT ![s] =
                                [pc |-> "loaded", filter_value |-> profile_id,
                                 amount |-> amount, deps |-> deposits]]
    /\ lastOp' = Op("use_deposit_fifo",
                    IF sessions' = sessions THEN "insufficient_balance" ELSE "pending")
    /\ UNCHANGED <<deposits, usages, slips, nextBatch, gen, settings>>

\* the UPDATE of a flush: the attributes of the loaded row that the loop
\* changed, with the values it computed
FlushDeposit(row, loaded, computed) ==
    [row EXCEPT
       !.remaining_amount = IF computed.remaining_amount /= loaded.remaining_amount
                            THEN computed.remaining_amount ELSE @,
       !.is_exhausted = IF computed.is_exhausted /= loaded.is_exhausted
                        THEN computed.is_exhausted ELSE @]

\* use_deposit_fifo from the loop to db.commit()
fifo_commit(s) ==
    /\ sessions[s].pc = "loaded"
    /\ LET sess == sessions[s]
           r == FifoLoop(sess.deps, <<>>,
                         AvailableDeposits(sess.deps, "profile_id", sess.filter_value),
                         sess.amount, NoBatch)
       IN  /\ Len(usages) + Len(r.added) <= MaxUsages
           /\ deposits' = [i \in DOMAIN deposits |->
                             IF i \in DOMAIN sess.deps
                             THEN FlushDeposit(deposits[i], sess.deps[i], r.deposits[i])
                             ELSE deposits[i]]
           /\ usages' = usages \o r.added
    /\ sessions' = [sessions EXCEPT ![s] = Idle]
    /\ lastOp' = Op("use_deposit_fifo", "ok")
    /\ UNCHANGED <<slips, nextBatch, gen, settings>>

\* the request fails before its commit (connection lost, database error):
\* the session is closed and nothing of it is written
fifo_abort(s) ==
    /\ sessions[s].pc = "loaded"
    /\ sessions' = [sessions EXCEPT ![s] = Idle]
    /\ lastOp' = Op("use_deposit_fifo", "error")
    /\ UNCHANGED <<deposits, usages, slips, nextBatch, gen, settings>>

InitConc ==
    /\ deposits = <<>>
    /\ usages = <<>>
    /\ slips = {}
    /\ nextBatch = 1
    /\ lastOp = NotObserved
    /\ sessions = [s \in SessionIds |-> Idle]
    /\ gen = <<>>
    /\ periods = {}
    /\ rules = <<>>
    /\ rates = {}
    /\ call = NoCall

NextConc ==
    \/ \E p \in ProfileIds, d \in Dates, a \in Amounts :
           create_deposit(p, d, a, "KRW")
    \/ \E s \in SessionIds, p \in ProfileIds, a \in UseAmounts : fifo_read(s, p, a)
    \/ \E s \in SessionIds : fifo_commit(s)
    \/ \E s \in SessionIds : fifo_abort(s)

SpecConc == InitConc /\ [][NextConc]_vars

\* C6: under every interleaving of the reads and writes of concurrent
\* use-fifo requests, what is recorded as consumed from a deposit together
\* with what remains of it never exceeds the amount of the deposit: no
\* balance is spent twice.
C6_NoDoubleSpend ==
    \A i \in DepositIds :
        UsedOf(usages, i) + deposits[i].remaining_amount <= deposits[i].amount

(* ---------- a generation run, step by step ---------- *)
\* generate_slips works in the session of its request: the rows it adds and
\* the deposits it changes are pending until the db.commit() after the
\* additional-charge loop.  gen holds the run in progress: its request, its
\* batch id, the deposits as the session loaded them, the pending work st,
\* the UIDs still to process and the place in the handler.
NoRun == <<>>
Run(pc, req, batch_id, loaded, st, todo) ==
    <<[pc |-> pc, req |-> req, batch_id |-> batch_id, loaded |-> loaded,
       st |-> st, todo |-> todo]>>

\* from the start of the handler to the loop over billing_summary
gen_begin(req) ==
    /\ gen = NoRun
    /\ nextBatch <= MaxBatches
    /\ IF PresentUids(req) = <<>>
       THEN /\ lastOp' = Op("generate_slips", "no_billing_data")
            /\ UNCHANGED gen
       ELSE /\ gen' = Run("loop", req, nextBatch, deposits, GenStart(deposits),
                          PresentUids(req))
            /\ lastOp' = Op("generate_slips", "pending")
    /\ UNCHANGED <<deposits, usages, slips, nextBatch, sessions, settings>>

\* a pass of the loop that commits what the session holds after the pass
gen_uid_autocommit ==
    /\ gen /= NoRun
    /\ gen[1].pc = "loop"
    /\ gen[1].todo /= <<>>
    /\ LET g == gen[1]
           st == GenUid(g.st, Head(g.todo), g.req, g.batch_id)
       IN  /\ Len(usages) + Len(st.added) <= MaxUsages
           /\ gen' = Run("loop", g.req, g.batch_id, st.deposits,
                         [st EXCEPT !.added = <<>>, !.rows = <<>>], Tail(g.todo))
           /\ deposits' = st.deposits
           /\ usages' = usages \o st.added
           /\ slips' = slips \cup SeqToSet(st.rows)
    /\ UNCHANGED <<nextBatch, lastOp, sessions, settings>>

\* one pass of the loop over billing_summary
gen_uid ==
    /\ gen /= NoRun
    /\ gen[1].pc = "loop"
    /\ gen[1].todo /= <<>>
    /\ LET g == gen[1]
           st == GenUid(g.st, Head(g.todo), g.req, g.batch_id)
       IN  /\ Len(usages) + Len(st.added) <= MaxUsages
           /\ gen' = Run("loop", g.req, g.batch_id, g.loaded, st, Tail(g.todo))
    /\ UNCHANGED <<deposits, usages, slips, nextBatch, lastOp, sessions, settings>>

\* the additional-charge loop, when the request includes it
gen_charges ==
    /\ gen /= NoRun
    /\ gen[1].pc = "loop"
    /\ gen[1].todo = <<>>
    /\ LET g == gen[1]
           st == IF g.req.include_additional_charges
                 THEN GenCharges(g.st, PresentUids(g.req), g.req, g.batch_id)
                 ELSE g.st
       IN  gen' = Run("commit", g.req, g.batch_id, g.loaded, st, <<>>)
    /\ UNCHANGED <<deposits, usages, slips, nextBatch, lastOp, sessions, settings>>

\* db.commit(): the pending rows and the changed deposits are written
gen_commit ==
    /\ gen /= NoRun
    /\ gen[1].pc = "commit"
    /\ LET g == gen[1]
       IN  /\ deposits' = [i \in DOMAIN deposits |->
                             IF i \in DOMAIN g.loaded
                             THEN FlushDeposit(deposits[i], g.loaded[i], g.st.deposits[i])
                             ELSE deposits[i]]
           /\ usages' = usages \o g.st.added
           /\ slips' = slips \cup SeqToSet(g.st.rows)
    /\ nextBatch' = nextBatch + 1
    /\ gen' = NoRun
    /\ lastOp' = Op("generate_slips", "ok")
    /\ UNCHANGED <<sessions, settings>>

\* an exception leaves the handler before db.commit(): the session of the
\* request is closed, which discards what was pending
gen_abort ==
    /\ gen /= NoRun
    /\ gen' = NoRun
    /\ lastOp' = Op("generate_slips", "error")
    /\ UNCHANGED <<deposits, usages, slips, nextBatch, sessions, settings>>

NextGen ==
    \/ /\ gen = NoRun
       /\ \E p \in ContractProfileIds, d \in Dates, a \in Amounts, c \in Currencies :
              create_contract_deposit(p, d, a, c)
    \/ \E req \in Requests : gen_begin(req)
    \/ gen_uid
    \/ gen_charges
    \/ gen_commit
    \/ gen_abort
    \/ /\ gen = NoRun
       /\ \E b \in BatchIds : delete_batch(b)

SpecGen == InitObserved /\ [][NextGen]_vars

\* the tables hold no row of batch batch_id
NoRowOfBatch(batch_id) ==
    /\ BatchSlips(batch_id) = {}
    /\ \A k \in 1..Len(usages) : usages[k].slip_batch_id /= batch_id

\* the step writes the whole work of the run of request req, and ends it
WholeRunWritten(req, batch_id) ==
    LET run == GenerateRun(deposits, req, batch_id)
    IN  /\ gen' = NoRun
        /\ deposits' = run.deposits
        /\ usages' = usages \o run.added
        /\ slips' = slips \cup SeqToSet(run.rows)

\* C7: a generation run is atomic.  While a run is in progress the tables
\* hold no slip row and no usage row of its batch, and every step of the run
\* either leaves deposits, usages and slips as they are or writes the whole
\* run at once; a run that aborts leaves them as they were.
C7_GenerationAtomic ==
    [][gen /= NoRun =>
          /\ NoRowOfBatch(gen[1].batch_id)
          /\ \/ UNCHANGED <<deposits, usages, slips>>
             \/ WholeRunWritten(gen[1].req, gen[1].batch_id)
          /\ lastOp'.result = "error" => UNCHANGED <<deposits, usages, slips, nextBatch>>]_vars

\* a run in progress has consumed a deposit and produced a slip row in its
\* session, and the tables show nothing of it yet
C7_Witness ==
    /\ gen /= NoRun
    /\ gen[1].st.added /= <<>>
    /\ gen[1].st.rows /= <<>>
    /\ gen[1].todo /= <<>>
    /\ NoRowOfBatch(gen[1].batch_id)
    /\ \E i \in DepositIds :
          /\ gen[1].st.deposits[i].remaining_amount < deposits[i].remaining_amount
          /\ deposits[i].remaining_amount = deposits[i].amount

(* ---------- the life of a batch: edit, confirm, delete ---------- *)
\* the partner values of a PATCH body: not set, null, empty, a BP code
PartnerUpdates == {Unset, Null, "", "BP1"}

NextSlips ==
    \/ \E req \in Requests : generate_slips(req)
    \/ \E id \in SlipIds, p \in PartnerUpdates : update_slip(id, p)
    \/ \E b \in BatchIds : confirm_slips(b)
    \/ \E b \in BatchIds : delete_batch(b)

SpecSlips == InitObserved /\ [][NextSlips]_vars

\* C9: update_slip on a confirmed SlipRecord is rejected with an error and
\* leaves every field of the record (and every other row) unchanged.
C9_ConfirmedSlipImmutable ==
    [][\A id \in SlipIds, p \in PartnerUpdates :
          (update_slip(id, p) /\ SlipById(id).is_confirmed) =>
             /\ lastOp' = [op |-> "update_slip", result |-> "confirmed"]
             /\ slips' = slips]_vars

\* an update of a confirmed row, whose partner was set before the batch
\* was confirmed, has just been rejected
C9_Witness ==
    /\ lastOp = [op |-> "update_slip", result |-> "confirmed"]
    /\ \E s \in slips : s.is_confirmed /\ s.partner = "BP1" /\ s.uid = "uidB"

\* C10: confirm_slips on a batch in which a row has no partner code is
\* rejected and confirms no row; and in every state every confirmed
\* SlipRecord has a non-empty partner code.
C10_ConfirmNeedsPartner ==
    [][/\ \A b \in BatchIds :
             (confirm_slips(b) /\ \E s \in BatchSlips(b) : NoPartner(s)) =>
                /\ lastOp' = [op |-> "confirm_slips", result |-> "no_bp"]
                /\ slips' = slips
       /\ \A s \in slips' : s.is_confirmed => s.partner \notin {Null, ""}]_vars

\* the confirmation of a batch with a row that has a partner code and a
\* row that has none has just been rejected, and no row is confirmed
C10_Witness ==
    /\ lastOp = [op |-> "confirm_slips", result |-> "no_bp"]
    /\ \E s, t \in slips :
          /\ s.batch_id = t.batch_id
          /\ s.partner = "BP1"
          /\ NoPartner(t)
    /\ \A s \in slips : ~s.is_confirmed

(* ---------- batches after confirmation ---------- *)
\* the batch ids of a history in which a batch is generated after another
\* was confirmed or deleted
LaterBatchIds == 1..(MaxBatches + 1)

\* requests on cycles that bill uidA (mapped, overseas) and uidB (unmapped),
\* without split billing and additional charges
BatchRequests ==
    {req \in Requests : /\ ~req.apply_split_billing
                        /\ req.billing["uidC"] = Absent
                        /\ req.billing["uidA"] \in {Absent, 1}}

NextBatches ==
    \/ \E p \in ContractProfileIds, a \in UseAmounts :
           create_contract_deposit(p, 1, a, "USD")
    \/ \E req \in BatchRequests : generate_slips_upto(req, MaxBatches + 1)
    \/ \E id \in SlipIds, p \in {Null, "BP1"} : update_slip(id, p)
    \/ \E b \in LaterBatchIds : confirm_slips(b)
    \/ \E b \in LaterBatchIds : delete_batch(b)

SpecBatches == InitObserved /\ [][NextBatches]_vars

\* C11: delete_batch on a batch with a confirmed row is rejected, deletes
\* no slip row and no usage row and changes no deposit.
C11_ConfirmedBatchNotDeleted ==
    [][\A b \in LaterBatchIds :
          (delete_batch(b) /\ \E s \in BatchSlips(b) : s.is_confirmed) =>
             /\ lastOp' = [op |-> "delete_batch", result |-> "confirmed"]
             /\ slips' = slips
             /\ usages' = usages
             /\ deposits' = deposits]_vars

\* the deletion of a confirmed batch whose generation consumed a deposit
\* has just been rejected
C11_Witness ==
    /\ lastOp = [op |-> "delete_batch", result |-> "confirmed"]
    /\ \E s \in slips :
          /\ s.is_confirmed
          /\ \E k \in 1..Len(usages) :
                /\ usages[k].slip_batch_id = s.batch_id
                /\ usages[k].amount > 0
                /\ deposits[usages[k].deposit_id].remaining_amount
                      < deposits[usages[k].deposit_id].amount

\* C12: confirmation is irreversible.  A confirmed SlipRecord is, after any
\* step (update_slip, confirm_slips, delete_batch, generate_slips), still in
\* the table, confirmed and with the same field values.
C12_ConfirmationIrreversible ==
    [][\A s \in slips : s.is_confirmed => s \in slips']_vars

\* a second batch has just been generated while the rows of the first one
\* are confirmed
C12_Witness ==
    /\ lastOp = [op |-> "generate_slips", result |-> "ok"]
    /\ nextBatch = 3
    /\ \E s \in slips : s.batch_id = 1 /\ s.is_confirmed
    /\ \E s \in slips : s.batch_id = 2 /\ ~s.is_confirmed

(* ---------- the rows of one batch ---------- *)
\* C13: the rows a generation adds under its batch id (billing, split and
\* additional-charge rows together) carry the sequence numbers 1..N in
\* creation order, without duplicate or gap, and the reported total_slips
\* is N.
C13_SequenceNumbers ==
    [][\A req \in Requests :
          (generate_slips(req) /\ PresentUids(req) /= <<>>) =>
             LET run == GenerateRun(deposits, req, nextBatch)
                 N == Len(run.rows)
                 batch == {s \in slips' : s.batch_id = nextBatch}
             IN  /\ \A i \in 1..N : run.rows[i].seqno = i
                 /\ batch = SeqToSet(run.rows)
                 /\ Cardinality(batch) = N
                 /\ {s.seqno : s \in batch} = 1..N
                 /\ total_slips(run) = N]_vars

\* a batch of four rows or more has been generated: split rows, then a
\* billing row, then an additional-charge row
C13_Witness ==
    /\ lastOp = [op |-> "generate_slips", result |-> "ok"]
    /\ \E b \in BatchIds :
          /\ Cardinality(BatchSlips(b)) >= 4
          /\ \E s, t, u \in BatchSlips(b) :
                /\ s.source_type = "billing"
                /\ t.source_type = "split"
                /\ u.source_type = "additional_charge"
                /\ t.seqno < s.seqno /\ s.seqno < u.seqno

(* ---------- internal-cost companies ---------- *)
\* requests on cycles in which the contract of the internal-cost company
\* (contract 3) may have an applicable additional charge
ChargeRequests ==
    [billing : BillingSummaries, apply_split_billing : {FALSE},
     include_additional_charges : {TRUE, FALSE}, rule : {NoRule},
     charges : SUBSET {1, 3}]

NextCharges ==
    \/ \E req \in ChargeRequests : generate_slips(req)
    \/ \E id \in SlipIds, p \in {Null, "BP1"} : update_slip(id, p)
    \/ \E b \in BatchIds : confirm_slips(b)
    \/ \E b \in BatchIds : delete_batch(b)

SpecCharges == InitObserved /\ [][NextCharges]_vars

\* the companies whose is_internal_cost is true, by name
InternalCostCompanies ==
    {Account(Uids[i]).company_name : i \in {j \in 1..Len(Uids) :
                                               Account(Uids[j]).is_internal_cost}}

\* C14: no SlipRecord of a generated batch, of any source type, is emitted
\* for a company whose is_internal_cost is true.
C14_NoInternalCostRows ==
    \A s \in slips : s.partner_name \notin InternalCostCompanies

(* ---------- pro-rata ratio (pro_rata.py) ---------- *)
\* A date is month * 100 + day, as in YYYYMMDD; a billing cycle is a month.
ShortMonth == 2
get_days_in_month(month) == IF month = ShortMonth THEN MaxDay - 1 ELSE MaxDay
Date(month, day) == month * 100 + day
DayOf(d) == d % 100
CalendarDates ==
    {Date(m, d) : m \in 1..MaxMonth, d \in 1..MaxDay} \ {Date(ShortMonth, MaxDay)}

\* a float rounded to 6 places is counted in millionths
Millionths == 1000000
Round6(num, den) == (2 * num * Millionths + den) \div (2 * den)

None == <<>>               \* an Optional value is <<>> or <<v>>
Some(v) == <<v>>

calculate_pro_rata_ratio(billing_cycle, start_day, end_day) ==
    LET total_days == get_days_in_month(billing_cycle)
        s == IF start_day < total_days
             THEN (IF start_day > 1 THEN start_day ELSE 1)
             ELSE (IF total_days > 1 THEN total_days ELSE 1)
        e == IF end_day < total_days
             THEN (IF end_day > 1 THEN end_day ELSE 1)
             ELSE (IF total_days > 1 THEN total_days ELSE 1)
        active_days == IF s > e THEN 0 ELSE e - s + 1
    IN  [total_days |-> total_days, active_days |-> active_days,
         ratio |-> IF total_days > 0 THEN Round6(active_days, total_days) ELSE 0]

\* contract is None when no HBContract row has the seq, else the row
auto_calculate_pro_rata(contract, billing_cycle) ==
    IF contract = None THEN None
    ELSE
    LET c == contract[1]
        total_days == get_days_in_month(billing_cycle)
        cycle_start == Date(billing_cycle, 1)
        cycle_end == Date(billing_cycle, total_days)
        start_day == IF c.contract_start_date /= NoDate
                        /\ c.contract_start_date > cycle_start
                     THEN DayOf(c.contract_start_date) ELSE 1
        end_day == IF c.contract_end_date /= NoDate
                      /\ c.contract_end_date < cycle_end
                   THEN DayOf(c.contract_end_date) ELSE total_days
        active_days == end_day - start_day + 1
    IN  IF c.contract_start_date /= NoDate /\ c.contract_start_date > cycle_end
        THEN Some([total_days |-> total_days, active_days |-> 0, ratio |-> 0,
                   reason |-> "contract_not_started"])
        ELSE IF c.contract_end_date /= NoDate /\ c.contract_end_date < cycle_start
        THEN Some([total_days |-> total_days, active_days |-> 0, ratio |-> 0,
                   reason |-> "contract_ended"])
        ELSE IF start_day = 1 /\ end_day = total_days THEN None
        ELSE Some([total_days |-> total_days, active_days |-> active_days,
                   ratio |-> Round6(active_days, total_days),
                   reason |-> "partial_month"])

ManualPeriod(contract_seq, billing_cycle) ==
    {p \in periods : p.contract_seq = contract_seq /\ p.billing_cycle = billing_cycle}

\* the manual period of the contract and cycle if there is one, else the
\* ratio computed from the contract's dates; a ratio of 1 or more is None
EvaluateProRata(contract_seq, contract, billing_cycle) ==
    IF ManualPeriod(contract_seq, billing_cycle) /= {}
    THEN LET manual_period == CHOOSE p \in ManualPeriod(contract_seq, billing_cycle) : TRUE
         IN  IF manual_period.ratio < Millionths THEN Some(manual_period.ratio) ELSE None
    ELSE LET auto_result == auto_calculate_pro_rata(contract, billing_cycle)
         IN  IF auto_result /= None /\ auto_result[1].ratio < Millionths
             THEN Some(auto_result[1].ratio)
             ELSE None

ProRataRatioSwitchOnly(contract_seq, contract, billing_cycle, pro_rata_enabled, pro_rata_override) ==
    IF ~pro_rata_enabled THEN None
    ELSE EvaluateProRata(contract_seq, contract, billing_cycle)

\* the value get_pro_rata_ratio returns
ProRataRatio(contract_seq, contract, billing_cycle, pro_rata_enabled, pro_rata_override) ==
    IF pro_rata_override = "disabled" THEN None
    ELSE IF pro_rata_override /= "enabled" /\ ~pro_rata_enabled THEN None
    ELSE EvaluateProRata(contract_seq, contract, billing_cycle)

ledger == <<deposits, usages, slips, nextBatch, lastOp, sessions, gen>>

get_pro_rata_ratio(contract_seq, contract, billing_cycle, pro_rata_enabled, pro_rata_override) ==
    /\ call' = [fn |-> "get_pro_rata_ratio", contract |-> contract,
                billing_cycle |-> billing_cycle,
                manual |-> ManualPeriod(contract_seq, billing_cycle) /= {},
                pro_rata_enabled |-> pro_rata_enabled,
                pro_rata_override |-> pro_rata_override,
                result |-> ProRataRatio(contract_seq, contract, billing_cycle,
                                        pro_rata_enabled, pro_rata_override)]
    /\ UNCHANGED <<ledger, periods, rules, rates>>

(* ---------- /api/pro-rata/periods ---------- *)
NewPeriod(contract_seq, billing_cycle, start_day, end_day) ==
    LET calc == calculate_pro_rata_ratio(billing_cycle, start_day, end_day)
    IN  [contract_seq |-> contract_seq, billing_cycle |-> billing_cycle,
         start_day |-> start_day, end_day |-> end_day,
         total_days |-> calc.total_days, active_days |-> calc.active_days,
         ratio |-> calc.ratio]

create_pro_rata_period(contract_seq, billing_cycle, start_day, end_day) ==
    /\ ManualPeriod(contract_seq, billing_cycle) = {}
    /\ periods' = periods \cup {NewPeriod(contract_seq, billing_cycle, start_day, end_day)}
    /\ call' = NoCall
    /\ UNCHANGED <<ledger, rules, rates>>

\* NoDay: the field is not in model_dump(exclude_unset=True)
NoDay == 0 - 1
update_pro_rata_period(period, start_day, end_day) ==
    /\ period \in periods
    /\ start_day /= NoDay \/ end_day /= NoDay
    /\ LET new_start == IF start_day /= NoDay THEN start_day ELSE period.start_day
           new_end == IF end_day /= NoDay THEN end_day ELSE period.end_day
       IN  periods' = (periods \ {period})
                         \cup {NewPeriod(period.contract_seq, period.billing_cycle,
                                         new_start, new_end)}
    /\ call' = NoCall
    /\ UNCHANGED <<ledger, rules, rates>>

delete_pro_rata_period(period) ==
    /\ period \in periods
    /\ periods' = periods \ {period}
    /\ call' = NoCall
    /\ UNCHANGED <<ledger, rules, rates>>

\* the contract row read by a call: no row, or its two dates
ContractRows ==
    {None} \cup {Some([contract_start_date |-> s, contract_end_date |-> e]) :
                    s \in CalendarDates \cup {NoDate}, e \in CalendarDates \cup {NoDate}}
BillingCycles == {ShortMonth}
\* start_day and end_day of a request are unvalidated integers
Days == 0..MaxDay
Overrides == {Null, "enabled", "disabled"}

NextProRata ==
    \/ \E b \in BillingCycles, s \in Days, e \in Days : create_pro_rata_period(1, b, s, e)
    \/ \E p \in periods, s \in Days \cup {NoDay}, e \in Days \cup {NoDay} :
           update_pro_rata_period(p, s, e)
    \/ \E p \in periods : delete_pro_rata_period(p)
    \/ \E c \in ContractRows, b \in BillingCycles, en \in BOOLEAN, o \in Overrides :
           get_pro_rata_ratio(1, c, b, en, o)

SpecProRata == InitObserved /\ [][NextProRata]_vars

\* C15: for every contract (any combination of contract_start_date and
\* contract_end_date), every billing cycle and every manual period,
\* get_pro_rata_ratio returns None or a ratio r with 0 <= r <= 1.
C15_RatioInUnitInterval ==
    (call /= NoCall /\ call.fn = "get_pro_rata_ratio") =>
        \/ call.result = None
        \/ call.result[1] >= 0 /\ call.result[1] <= Millionths

(* ---------- split rules (split_billing.py) ---------- *)
\* HBCompany rows that can be the target of an allocation, and their bp_number
TargetCompanies == {4, 5}
CompanyBP(seq) == IF seq = 4 THEN "BP1" ELSE Null
\* HBVendorAccount rows that can be the source of a rule
SourceAccounts == {"uidA"}

MaxOf(S) == IF S = {} THEN 0 ELSE CHOOSE m \in S : \A x \in S : x <= m
RuleIds == {rules[i].id : i \in 1..Len(rules)}
AllocationIds ==
    UNION {{rules[i].allocations[j].allocation_id : j \in 1..Len(rules[i].allocations)} :
              i \in 1..Len(rules)}

\* the sum over the allocations of split_type percentage
RECURSIVE TotalPercentage(_)
TotalPercentage(allocations) ==
    IF allocations = <<>> THEN 0
    ELSE (IF Head(allocations).split_type = "percentage"
          THEN Head(allocations).split_value ELSE 0)
         + TotalPercentage(Tail(allocations))

\* SplitBillingAllocation rows for the AllocationCreate items, ids from first_id
NewAllocations(allocations, first_id) ==
    [j \in 1..Len(allocations) |->
        Allocation(first_id + j - 1, allocations[j].split_type,
                   allocations[j].split_value, allocations[j].priority,
                   allocations[j].target_company_seq,
                   CompanyBP(allocations[j].target_company_seq))]

NewRule(source_account_id, allocations) ==
    [id |-> MaxOf(RuleIds) + 1, source_account_id |-> source_account_id,
     is_active |-> TRUE,
     allocations |-> NewAllocations(allocations, MaxOf(AllocationIds) + 1)]

\* the handler without its check of the percentage total
create_split_rule_unchecked(source_account_id, allocations) ==
    /\ IF source_account_id \notin SourceAccounts
       THEN /\ lastOp' = Op("create_split_rule", "account_not_found")
            /\ UNCHANGED rules
       ELSE IF \E j \in 1..Len(allocations) :
                  allocations[j].target_company_seq \notin TargetCompanies
       THEN /\ lastOp' = Op("create_split_rule", "company_not_found")
            /\ UNCHANGED rules
       ELSE /\ Len(rules) < MaxRules
            /\ rules' = Append(rules, NewRule(source_account_id, allocations))
            /\ lastOp' = Op("create_split_rule", "ok")
    /\ call' = NoCall
    /\ UNCHANGED <<deposits, usages, slips, nextBatch, sessions, gen, periods, rates>>

create_split_rule(source_account_id, allocations) ==
    /\ IF source_account_id \notin SourceAccounts
       THEN /\ lastOp' = Op("create_split_rule", "account_not_found")
            /\ UNCHANGED rules
       ELSE IF \E j \in 1..Len(allocations) :
                  allocations[j].target_company_seq \notin TargetCompanies
       THEN /\ lastOp' = Op("create_split_rule", "company_not_found")
            /\ UNCHANGED rules
       ELSE IF TotalPercentage(allocations) > 100
       THEN /\ lastOp' = Op("create_split_rule", "percentage_exceeds_100")
            /\ UNCHANGED rules
       ELSE /\ Len(rules) < MaxRules
            /\ rules' = Append(rules, NewRule(source_account_id, allocations))
            /\ lastOp' = Op("create_split_rule", "ok")
    /\ call' = NoCall
    /\ UNCHANGED <<deposits, usages, slips, nextBatch, sessions, gen, periods, rates>>

delete_split_rule(rule_id) ==
    /\ rule_id \in RuleIds
    /\ rules' = SelectSeq(rules, LAMBDA r : r.id /= rule_id)
    /\ lastOp' = Op("delete_split_rule", "ok")
    /\ call' = NoCall
    /\ UNCHANGED <<deposits, usages, slips, nextBatch, sessions, gen, periods, rates>>

add_allocation(rule_id, data) ==
    /\ rule_id \in RuleIds
    /\ IF data.target_company_seq \notin TargetCompanies
       THEN /\ lastOp' = Op("add_allocation", "company_not_found")
            /\ UNCHANGED rules
       ELSE /\ \A i \in 1..Len(rules) : Len(rules[i].allocations) < MaxAllocations
            /\ rules' = [i \in 1..Len(rules) |->
                            IF rules[i].id = rule_id
                            THEN [rules[i] EXCEPT !.allocations =
                                     @ \o NewAllocations(<<data>>, MaxOf(AllocationIds) + 1)]
                            ELSE rules[i]]
            /\ lastOp' = Op("add_allocation", "ok")
    /\ call' = NoCall
    /\ UNCHANGED <<deposits, usages, slips, nextBatch, sessions, gen, periods, rates>>

\* the first active rule of the UID, as a sequence of at most one rule
ActiveRule(source_account_id) ==
    LET ids == {rules[i].id : i \in {j \in 1..Len(rules) :
                                        /\ rules[j].source_account_id = source_account_id
                                        /\ rules[j].is_active}}
    IN  SelectSeq(rules, LAMBDA r : r.id \in ids /\ \A x \in ids : r.id <= x)

\* POST /simulate: calculate_split_amounts on the rule table
simulate_split(source_account_id, amount_usd) ==
    /\ call' = LET rule == ActiveRule(source_account_id)
               IN  [fn |-> "calculate_split_amounts", amount_usd |-> amount_usd,
                    found |-> rule /= <<>>,
                    result |-> IF rule = <<>>
                               THEN calculate_split_amounts(NoRule, amount_usd)
                               ELSE calculate_split_amounts(rule[1].allocations, amount_usd)]
    /\ UNCHANGED <<ledger, periods, rules, rates>>

\* AllocationCreate items: split_value is an unvalidated float, the target
\* company 9 does not exist
AllocationInputs ==
    [target_company_seq : {4}, split_type : {"percentage"},
     split_value : {40, 60, 70}, priority : {0, 1}]
    \cup [target_company_seq : {5}, split_type : {"fixed_amount"},
          split_value : {0 - 1, 2}, priority : {0}]
    \cup {[target_company_seq |-> 9, split_type |-> "percentage",
           split_value |-> 40, priority |-> 0]}
RuleRequests ==
    {<<>>} \cup {<<a>> : a \in AllocationInputs}
           \cup {<<a, b>> : a \in AllocationInputs, b \in AllocationInputs}
SplitAmounts == 1..MaxSplitAmount

NextSplit ==
    \/ \E uid \in SourceAccounts \cup {"uidX"}, allocations \in RuleRequests :
           create_split_rule(uid, allocations)
    \/ \E id \in RuleIds : delete_split_rule(id)
    \/ \E id \in RuleIds, data \in AllocationInputs : add_allocation(id, data)
    \/ \E uid \in SourceAccounts, amount_usd \in SplitAmounts :
           simulate_split(uid, amount_usd)

SpecSplit == InitObserved /\ [][NextSplit]_vars

\* C16: for every active rule and every positive source amount, the
\* allocated amounts of calculate_split_amounts sum to at most the source
\* amount, each is at most the amount still unallocated when it is
\* processed, and the reported remainder is not negative.
C16_SplitWithinSource ==
    (call /= NoCall /\ call.fn = "calculate_split_amounts" /\ call.found) =>
        LET allocs == call.result.allocations
            Allocated(n) == SumSeq([j \in 1..n |-> allocs[j].allocated_amount_usd])
        IN  /\ Allocated(Len(allocs)) <= call.amount_usd
            /\ \A i \in 1..Len(allocs) :
                   allocs[i].allocated_amount_usd <= call.amount_usd - Allocated(i - 1)
            /\ call.result.remaining >= 0

\* a rule whose percentages add up to more than 100 (built with
\* add_allocation) was applied: the last of three allocations got less than
\* its share and nothing remains
C16_Witness ==
    /\ call /= NoCall /\ call.fn = "calculate_split_amounts" /\ call.found
    /\ Len(call.result.allocations) = 3
    /\ call.result.remaining = 0
    /\ \E i \in 1..Len(rules) :
          /\ TotalPercentage(rules[i].allocations) > 100
          /\ \E j \in 1..Len(rules[i].allocations) :
                LET a == rules[i].allocations[j]
                    r == call.result.allocations[3]
                IN  /\ a.allocation_id = r.allocation_id
                    /\ a.split_type = "percentage"
                    /\ r.allocated_amount_usd
                          < RoundHalfUpDiv100(call.amount_usd * a.split_value)

\* the requests whose percentage values sum to more than 100
OverHundred == {allocations \in RuleRequests : TotalPercentage(allocations) > 100}

\* C17: create_split_rule given allocations whose percentage values sum to
\* more than 100 is rejected with an error and stores neither the rule nor
\* any allocation.
C17_OverHundredRejected ==
    [][\A uid \in SourceAccounts \cup {"uidX"}, allocations \in OverHundred :
          create_split_rule(uid, allocations) =>
             /\ lastOp'.op = "create_split_rule"
             /\ lastOp'.result \in {"percentage_exceeds_100", "company_not_found",
                                     "account_not_found"}
             /\ rules' = rules]_vars

\* a request with 60% + 70% has just been rejected while the table holds
\* an earlier rule, which is unchanged
C17_Witness ==
    /\ lastOp = [op |-> "create_split_rule", result |-> "percentage_exceeds_100"]
    /\ Len(rules) = 1

(* ---------- exchange-rate date (slip.py) ---------- *)
NoCycle == 0     \* billing_cycle is None
\* the day before the 1st of a month; month 0 precedes the calendar
PrevDay(first_of_month) ==
    LET month == first_of_month \div 100
    IN  Date(month - 1, get_days_in_month(month - 1))

\* the if / elif chain as written: the second and the third test both
\* compare with FIRST_OF_DOCUMENT_MONTH
calculate_exchange_rate_date(rule, document_date, billing_cycle) ==
    IF rule = "document_date" THEN document_date
    ELSE IF rule = "first_of_document_month"
    THEN Date(document_date \div 100, 1)
    ELSE IF rule = "first_of_document_month"
    THEN (IF billing_cycle /= NoCycle THEN Date(billing_cycle, 1)
          ELSE Date(document_date \div 100, 1))
    ELSE IF rule = "last_of_prev_month"
    THEN PrevDay(Date(document_date \div 100, 1))
    ELSE document_date

ExchangeRateDateRules ==
    {"document_date", "first_of_document_month", "first_of_billing_month",
     "last_of_prev_month", "custom"}

\* GET /exchange-rates/calculate-date, up to the date it computes
calculate_rate_date(rule, document_date, billing_cycle) ==
    /\ call' = [fn |-> "calculate_exchange_rate_date", rule |-> rule,
                document_date |-> document_date, billing_cycle |-> billing_cycle,
                result |-> calculate_exchange_rate_date(rule, document_date, billing_cycle)]
    /\ UNCHANGED <<ledger, periods, rules, rates>>

NextRateDate ==
    \E rule \in ExchangeRateDateRules, document_date \in CalendarDates,
       billing_cycle \in (1..MaxMonth) \cup {NoCycle} :
        calculate_rate_date(rule, document_date, billing_cycle)

SpecRateDate == InitObserved /\ [][NextRateDate]_vars

\* C18: calculate_exchange_rate_date returns document_date for the rules
\* document_date and custom, the 1st of the document date's month for
\* first_of_document_month, the 1st of the billing cycle's month for
\* first_of_billing_month, and the day before the 1st of the document
\* date's month for last_of_prev_month.
C18_RateDateByRule ==
    (call /= NoCall /\ call.fn = "calculate_exchange_rate_date") =>
        /\ call.rule \in {"document_date", "custom"} =>
               call.result = call.document_date
        /\ call.rule = "first_of_document_month" =>
               call.result = Date(call.document_date \div 100, 1)
        /\ (call.rule = "first_of_billing_month" /\ call.billing_cycle /= NoCycle) =>
               call.result = Date(call.billing_cycle, 1)
        /\ call.rule = "last_of_prev_month" =>
               /\ call.result \div 100 = (call.document_date \div 100) - 1
               /\ DayOf(call.result) = get_days_in_month(call.result \div 100)

(* ---------- exchange rates (slip.py) ---------- *)
\* An ExchangeRate row of the pair USD -> KRW.  basic_rate and send_rate
\* are only tested for truth, so 0 stands for None as well as for 0.0.
RateRow(rate_date, rate, basic_rate, send_rate) ==
    [rate_date |-> rate_date, rate |-> rate, basic_rate |-> basic_rate,
     send_rate |-> send_rate]
RowsAt(table, d) == {r \in table : r.rate_date = d}
RowAt(table, d) == CHOOSE r \in table : r.rate_date = d
FirstOfMonth(d) == Date(d \div 100, 1)

NoRate == 0 - 1    \* "rate": None
NotFound == [rate |-> NoRate, rate_type |-> Null, rate_date |-> NoDate]

_get_exchange_rate_for_slip(table, document_date, slip_type, is_overseas) ==
    LET first_day == FirstOfMonth(document_date)
    IN  IF /\ is_overseas
           /\ RowsAt(table, first_day) /= {}
           /\ RowAt(table, first_day).basic_rate /= 0
        THEN [rate |-> RowAt(table, first_day).basic_rate, rate_type |-> "basic_rate",
              rate_date |-> first_day]
        ELSE IF /\ slip_type = "sales"
                /\ RowsAt(table, document_date) /= {}
                /\ RowAt(table, document_date).send_rate /= 0
        THEN [rate |-> RowAt(table, document_date).send_rate, rate_type |-> "send_rate",
              rate_date |-> document_date]
        ELSE IF RowsAt(table, document_date) /= {}
        THEN LET rate_record == RowAt(table, document_date)
             IN  [rate |-> IF rate_record.basic_rate /= 0 THEN rate_record.basic_rate
                           ELSE rate_record.rate,
                  rate_type |-> "basic_rate", rate_date |-> document_date]
        ELSE NotFound

\* existing row of the date updated, else a row added
Upsert(table, row) == (table \ RowsAt(table, row.rate_date)) \cup {row}

\* rows of the HB API answer carry date, basic_rate and send_rate; the
\* legacy rate column takes the basic rate
RECURSIVE UpsertAll(_, _)
UpsertAll(table, rows) ==
    IF rows = {} THEN table
    ELSE LET row == CHOOSE r \in rows : TRUE
         IN  UpsertAll(Upsert(table, RateRow(row.rate_date, row.basic_rate,
                                             row.basic_rate, row.send_rate)),
                       rows \ {row})

\* fetched is the answer of the HB API: the empty set when the request
\* fails or brings no rows
_sync_exchange_rates_from_hb_internal(table, fetched) ==
    [synced |-> Cardinality(fetched), rates |-> UpsertAll(table, fetched)]

\* the whole of _ensure_exchange_rate: its result and the table it leaves
_ensure_exchange_rate(table, document_date, slip_type, is_overseas, fetched) ==
    LET result == _get_exchange_rate_for_slip(table, document_date, slip_type, is_overseas)
        sync == _sync_exchange_rates_from_hb_internal(table, fetched)
    IN  IF result.rate /= NoRate
        THEN [result |-> result, synced |-> FALSE, rates |-> table]
        ELSE IF sync.synced > 0
        THEN [result |-> _get_exchange_rate_for_slip(sync.rates, document_date,
                                                     slip_type, is_overseas),
              synced |-> TRUE, rates |-> sync.rates]
        ELSE [result |-> result, synced |-> FALSE, rates |-> sync.rates]

\* POST /exchange-rates
create_exchange_rate(data) ==
    /\ rates' = Upsert(rates, data)
    /\ call' = NoCall
    /\ UNCHANGED <<ledger, periods, rules>>

\* the rate dates of the model: the 1st and the 2nd of the short month
RateDates == {Date(ShortMonth, 1), Date(ShortMonth, 2)}
ManualRates == {RateRow(d, 1, b, s) : d \in RateDates, b \in {0, 2}, s \in {0, 3}}
HBRows == [rate_date : RateDates, basic_rate : {0, 5}, send_rate : {0, 6}]
Fetched == {f \in SUBSET HBRows : \A r, t \in f : r.rate_date = t.rate_date => r = t}
DocumentDates == {Date(ShortMonth, d) : d \in 1..get_days_in_month(ShortMonth)}
SlipTypes == {"sales", "purchase"}

\* The overseas rate of a generation run with auto_exchange_rate and no
\* manual overseas rate (overseas_exchange_rate and
\* overseas_exchange_rate_input not given), for an overseas company whose
\* contract profile has exchange_rate_type (Null: not set) and no
\* custom_exchange_rate_date.
overseas_rate(document_date, billing_cycle, slip_type, exchange_rate_type, fetched) ==
    LET info == _ensure_exchange_rate(rates, document_date, slip_type, TRUE, fetched)
        overseas_exchange_rate ==
            IF info.result.rate /= NoRate /\ info.result.rate /= 0
            THEN info.result ELSE NotFound
        rate_lookup_date ==
            CASE exchange_rate_type = "document_date" -> document_date
              [] exchange_rate_type = "first_of_document_month" -> FirstOfMonth(document_date)
              [] exchange_rate_type = "first_of_billing_month" -> Date(billing_cycle, 1)
              [] exchange_rate_type = "last_of_prev_month" ->
                     PrevDay(FirstOfMonth(document_date))
              [] OTHER -> document_date
        contract_rows == IF exchange_rate_type = Null THEN {}
                         ELSE RowsAt(info.rates, rate_lookup_date)
        rate_val == IF contract_rows = {} THEN 0
                    ELSE LET r == RowAt(info.rates, rate_lookup_date)
                         IN  IF r.basic_rate /= 0 THEN r.basic_rate ELSE r.rate
        effective == IF rate_val /= 0
                     THEN [rate |-> rate_val, rate_type |-> "contract",
                           rate_date |-> rate_lookup_date]
                     ELSE overseas_exchange_rate
    IN  /\ rates' = info.rates
        /\ call' = [fn |-> "overseas_rate", document_date |-> document_date,
                    exchange_rate_type |-> exchange_rate_type,
                    synced |-> info.synced, effective |-> effective]
        /\ UNCHANGED <<ledger, periods, rules>>

NextRates ==
    \/ \E data \in ManualRates : create_exchange_rate(data)
    \/ \E d \in DocumentDates, t \in SlipTypes, f \in Fetched,
          rule \in {Null, "document_date", "first_of_document_month"} :
           overseas_rate(d, ShortMonth, t, rule, f)

SpecRates == InitObserved /\ [][NextRates]_vars

\* C19: for an overseas entity with no manually supplied overseas rate, the
\* rate resolved for the KRW conversion is always the basic rate of the row
\* dated the 1st of the document date's month; a send rate, or a rate of a
\* row of another day, is never used.
C19_FirstOfMonthBasicRate ==
    (call /= NoCall /\ call.fn = "overseas_rate" /\ call.effective.rate /= NoRate) =>
        LET first_day == FirstOfMonth(call.document_date)
        IN  /\ call.effective.rate_date = first_day
            /\ RowsAt(rates, first_day) /= {}
            /\ call.effective.rate = RowAt(rates, first_day).basic_rate

(* ---------- _ensure_exchange_rate step by step ---------- *)
\* call holds the frame of the call: where it stands, its result so far and
\* how often it has looked up the table and refreshed it from the HB API
InEnsure == call /= NoCall /\ call.fn = "_ensure_exchange_rate"

\* line 602: the first lookup, and the branch on result["rate"] is None
ensure_lookup(document_date, slip_type, is_overseas) ==
    /\ IF InEnsure THEN call.pc = "done" ELSE TRUE
    /\ LET result == _get_exchange_rate_for_slip(rates, document_date, slip_type,
                                                 is_overseas)
       IN  call' = [fn |-> "_ensure_exchange_rate", document_date |-> document_date,
                    slip_type |-> slip_type, is_overseas |-> is_overseas,
                    result |-> result, synced |-> FALSE,
                    pc |-> IF result.rate = NoRate THEN "sync" ELSE "done",
                    lookups |-> 1, refreshes |-> 0]
    /\ UNCHANGED <<ledger, periods, rules, rates>>

\* line 606: the refresh, whose HTTP request ends within its timeout
ensure_sync(fetched) ==
    /\ InEnsure /\ call.pc = "sync"
    /\ LET sync == _sync_exchange_rates_from_hb_internal(rates, fetched)
       IN  /\ rates' = sync.rates
           /\ call' = [call EXCEPT !.refreshes = @ + 1,
                                   !.pc = IF sync.synced > 0 THEN "relookup" ELSE "done"]
    /\ UNCHANGED <<ledger, periods, rules>>

\* a second lookup that goes back to the refresh while the rate is missing
ensure_relookup_retry ==
    /\ InEnsure /\ call.pc = "relookup"
    /\ LET result == _get_exchange_rate_for_slip(rates, call.document_date,
                                                 call.slip_type, call.is_overseas)
       IN  call' = [call EXCEPT !.result = result, !.synced = TRUE,
                                !.lookups = @ + 1,
                                !.pc = IF result.rate = NoRate THEN "sync" ELSE "done"]
    /\ UNCHANGED <<ledger, periods, rules, rates>>

\* lines 608-609: the second lookup; the call returns whatever it finds
ensure_relookup ==
    /\ InEnsure /\ call.pc = "relookup"
    /\ LET result == _get_exchange_rate_for_slip(rates, call.document_date,
                                                 call.slip_type, call.is_overseas)
       IN  call' = [call EXCEPT !.result = result, !.synced = TRUE,
                                !.lookups = @ + 1, !.pc = "done"]
    /\ UNCHANGED <<ledger, periods, rules, rates>>

EnsureStep == (\E f \in Fetched : ensure_sync(f)) \/ ensure_relookup

NextEnsure ==
    \/ \E d \in DocumentDates, t \in SlipTypes, o \in BOOLEAN : ensure_lookup(d, t, o)
    \/ \E f \in Fetched : ensure_sync(f)
    \/ ensure_relookup

\* a call that has started goes on: its steps are a lookup of the local
\* table and an HTTP request with a timeout
SpecEnsure == InitObserved /\ [][NextEnsure]_vars /\ WF_vars(EnsureStep)

\* C20: each call of _ensure_exchange_rate performs at most one external
\* refresh and at most one lookup after it, and always terminates; when the
\* rate is still not found, or the refresh returns nothing, the call
\* reports not-found without another try.
C20_OneRefreshOneRelookup ==
    /\ [](InEnsure =>
            /\ call.refreshes <= 1
            /\ call.lookups <= 1 + call.refreshes
            /\ call.pc \in {"sync", "relookup", "done"}
            /\ (call.pc = "done" /\ call.refreshes = 1 /\ call.lookups = 1) =>
                   (call.result = NotFound /\ ~call.synced))
    /\ ((InEnsure /\ call.pc /= "done") ~> (InEnsure /\ call.pc = "done"))

\* a call has returned not-found after one refresh that brought rows and
\* one second lookup
C20_Witness ==
    /\ InEnsure /\ call.pc = "done"
    /\ call.refreshes = 1 /\ call.lookups = 2
    /\ call.synced /\ call.result = NotFound
    /\ rates /= {}

(* ---------- generate_slips: account codes of a row ---------- *)
\* SlipConfig of the vendor, as generate_slips creates it when none exists
config ==
    [hkont_sales |-> "41021010", hkont_sales_export |-> "41021020",
     hkont_purchase |-> "42021010", ar_account_default |-> "11060110",
     ap_account_default |-> "21120110"]

\* a billing profile row with its four account fields, Null when unset
AccountFields(ar_account, ap_account, hkont_sales, hkont_purchase) ==
    [ar_account |-> ar_account, ap_account |-> ap_account,
     hkont_sales |-> hkont_sales, hkont_purchase |-> hkont_purchase]

\* the company profile is only queried when the contract has no profile
EffectiveProfile(contract_billing_profile, company_profile_row) ==
    LET company_billing_profile ==
            IF contract_billing_profile = None THEN company_profile_row ELSE None
    IN  IF contract_billing_profile /= None THEN contract_billing_profile
        ELSE company_billing_profile

\* ar_account and hkont of the row: vendor default, then the effective
\* profile's fields, then the BP record when no profile is in effect
AccountCodes(slip_type, is_overseas, billing_profile, bp) ==
    LET ar0 == IF slip_type = "sales" THEN config.ar_account_default
               ELSE config.ap_account_default
        hk0 == IF is_overseas /\ slip_type = "sales"
               THEN config.hkont_sales_export
               ELSE IF slip_type = "sales" THEN config.hkont_sales
               ELSE config.hkont_purchase
        ar1 == IF billing_profile = None THEN ar0
               ELSE IF slip_type = "sales"
               THEN (IF billing_profile[1].ar_account /= Null
                     THEN billing_profile[1].ar_account ELSE ar0)
               ELSE (IF billing_profile[1].ap_account /= Null
                     THEN billing_profile[1].ap_account ELSE ar0)
        hk1 == IF billing_profile = None THEN hk0
               ELSE IF slip_type = "sales"
               THEN (IF billing_profile[1].hkont_sales /= Null
                     THEN billing_profile[1].hkont_sales ELSE hk0)
               ELSE (IF billing_profile[1].hkont_purchase /= Null
                     THEN billing_profile[1].hkont_purchase ELSE hk0)
        ar2 == IF bp /= None /\ billing_profile = None
               THEN (IF slip_type = "sales" /\ bp[1].ar_account /= Null
                     THEN bp[1].ar_account
                     ELSE IF slip_type = "purchase" /\ bp[1].ap_account /= Null
                     THEN bp[1].ap_account
                     ELSE ar1)
               ELSE ar1
    IN  [ar_account |-> ar2, hkont |-> hk1]

\* the step of generate_slips that resolves the codes of one usage
resolve_account_codes(slip_type, is_overseas, contract_profile, company_profile, bp) ==
    /\ call' = [fn |-> "account_codes", slip_type |-> slip_type,
                is_overseas |-> is_overseas,
                contract_profile |-> contract_profile,
                company_profile |-> company_profile, bp |-> bp,
                result |-> AccountCodes(slip_type, is_overseas,
                              EffectiveProfile(contract_profile, company_profile), bp)]
    /\ UNCHANGED <<ledger, periods, rules, rates>>

ContractProfileRows ==
    {None} \cup {Some(AccountFields(a, p, h, h)) :
                    a \in {Null, "CT-AR"}, p \in {Null, "CT-AP"},
                    h \in {Null, "CT-HK"}}
CompanyProfileRows ==
    {None} \cup {Some(AccountFields(a, p, Null, Null)) :
                    a \in {Null, "CO-AR"}, p \in {Null, "CO-AP"}}
BPRows ==
    {None} \cup {Some([ar_account |-> a, ap_account |-> p]) :
                    a \in {Null, "BP-AR"}, p \in {Null, "BP-AP"}}
SlipTypesBoth == {"sales", "purchase"}

NextAccounts ==
    \E slip_type \in SlipTypesBoth, is_overseas \in BOOLEAN,
       contract_profile \in ContractProfileRows,
       company_profile \in CompanyProfileRows, bp \in BPRows :
        resolve_account_codes(slip_type, is_overseas, contract_profile,
                              company_profile, bp)

SpecAccounts == InitObserved /\ [][NextAccounts]_vars

\* the receivable/payable field of a row for the slip type, Null when the
\* row is missing or leaves it unset
FieldOf(row, slip_type) ==
    IF row = None THEN Null
    ELSE IF slip_type = "sales" THEN row[1].ar_account ELSE row[1].ap_account

\* C21: the account code of a row is the first non-null value in the order
\* contract profile, company profile, BP record, vendor default; a contract
\* profile that leaves the field unset lets the company profile's value
\* through, else the BP record's, else the vendor default.
C21_AccountResolutionOrder ==
    (call /= NoCall /\ call.fn = "account_codes") =>
        LET ct == FieldOf(call.contract_profile, call.slip_type)
            co == FieldOf(call.company_profile, call.slip_type)
            bp == FieldOf(call.bp, call.slip_type)
            dflt == IF call.slip_type = "sales" THEN config.ar_account_default
                    ELSE config.ap_account_default
        IN  call.result.ar_account =
                IF ct /= Null THEN ct
                ELSE IF co /= Null THEN co
                ELSE IF bp /= Null THEN bp
                ELSE dflt

(* ---------- utils.py: round_decimal and apply_rounding ---------- *)
\* Decimal.quantize of the exact value num/den (den > 0) to an integer.
\* ROUND_CEILING goes towards plus infinity, ROUND_DOWN towards zero,
\* ROUND_HALF_UP to the nearest integer with ties away from zero.
Abs(n) == IF n < 0 THEN 0 - n ELSE n
Sign(n) == IF n < 0 THEN 0 - 1 ELSE 1
QuantizeAlwaysUp(num, den, rounding) == (num \div den) + 1
Quantize(num, den, rounding) ==
    IF rounding = "ROUND_CEILING" THEN 0 - ((0 - num) \div den)
    ELSE IF rounding = "ROUND_HALF_UP"
    THEN Sign(num) * ((2 * Abs(num) + den) \div (2 * den))
    ELSE Sign(num) * (Abs(num) \div den)

\* the rounding mode apply_rounding takes for a rule; any other rule floors
RoundingOf(rule) ==
    IF rule = "ceiling" THEN "ROUND_CEILING"
    ELSE IF rule = "round_half_up" THEN "ROUND_HALF_UP"
    ELSE "ROUND_DOWN"

\* Amounts handed to apply_rounding are counted in thousandths, so that an
\* amount has digits beyond the two decimals the function can keep.  The
\* result is int(result) for decimals = 0 and float(result) otherwise; both
\* print (str) as the decimal they were made from, so the value is kept in
\* thousandths again.
Fine == 1000
Pow10(decimals) == IF decimals = 0 THEN 1 ELSE IF decimals = 1 THEN 10 ELSE 100
apply_rounding(amount, rule, decimals) ==
    Quantize(amount * Pow10(decimals), Fine, RoundingOf(rule))
        * (Fine \div Pow10(decimals))

\* apply_rounding of the exact value num/den, counted in units of
\* 10^-decimals: whole KRW for decimals = 0, cents for decimals = 2
ApplyRounding(num, den, rule, decimals) ==
    Quantize(num * Pow10(decimals), den, RoundingOf(rule))

\* round_decimal(value, 2) of a value of num/den hundredths, in hundredths
round_decimal(num, den) == Quantize(num, den, "ROUND_HALF_UP")

MaxFineAmount == 1500
RoundingRules == {"floor", "ceiling", "round_half_up"}

\* the tables of a freshly created database
EmptyTables ==
    /\ deposits = <<>>
    /\ usages = <<>>
    /\ slips = {}
    /\ nextBatch = 1
    /\ lastOp = [op |-> "init", result |-> "ok"]
    /\ sessions = <<>>
    /\ gen = <<>>
    /\ periods = {}
    /\ rules = <<>>
    /\ rates = {}

\* a call waiting with its arguments, and the call once it has returned
Args(call_) == call_ /= NoCall /\ call_.pc = "args"
Done(fn) == call /= NoCall /\ call.fn = fn /\ call.pc = "done"

\* apply_rounding applied to an amount and again to its own result
apply_rounding_twice ==
    /\ Args(call) /\ call.fn = "apply_rounding"
    /\ call' = [fn |-> "apply_rounding", pc |-> "done", amount |-> call.amount,
                rule |-> call.rule, decimals |-> call.decimals,
                once |-> apply_rounding(call.amount, call.rule, call.decimals),
                twice |-> apply_rounding(
                              apply_rounding(call.amount, call.rule, call.decimals),
                              call.rule, call.decimals)]
    /\ UNCHANGED <<ledger, periods, rules, rates>>

InitRounding ==
    /\ EmptyTables
    /\ call \in [fn : {"apply_rounding"}, pc : {"args"},
                 amount : (0 - MaxFineAmount)..MaxFineAmount,
                 rule : RoundingRules, decimals : {0, 2}]

NextRounding == apply_rounding_twice

SpecRounding == InitRounding /\ [][NextRounding]_vars

\* C22: apply_rounding is idempotent: for every amount x, every rule r in
\* {floor, ceiling, round_half_up} and every decimals d in {0, 2},
\* apply_rounding(apply_rounding(x, r, d), r, d) = apply_rounding(x, r, d).
C22_RoundingIdempotent ==
    Done("apply_rounding") => call.twice = call.once

\* a negative amount between two cents, rounded up to the cent above it
C22_Witness ==
    /\ Done("apply_rounding")
    /\ call.amount < 0 /\ call.rule = "ceiling" /\ call.decimals = 2
    /\ call.once > call.amount
    /\ call.twice = call.once

(* ---------- get_pro_rata_ratio: the two switches ---------- *)
\* C24: get_pro_rata_ratio returns None whenever the contract profile's
\* pro_rata_override is disabled, whatever the dates and manual periods;
\* when the override is enabled it evaluates the manual period, then the
\* contract dates, even if the vendor-level pro_rata_enabled switch is off;
\* with no override and the vendor switch off it returns None.
C24_OverrideFlags ==
    (call /= NoCall /\ call.fn = "get_pro_rata_ratio") =>
        /\ call.pro_rata_override = "disabled" => call.result = None
        /\ (call.pro_rata_override = Null /\ ~call.pro_rata_enabled) =>
               call.result = None
        /\ call.pro_rata_override = "enabled" =>
               call.result =
                   IF \E p \in periods : p.contract_seq = 1
                                         /\ p.billing_cycle = call.billing_cycle
                   THEN LET p == CHOOSE q \in periods :
                                    q.contract_seq = 1
                                    /\ q.billing_cycle = call.billing_cycle
                        IN  IF p.ratio < Millionths THEN Some(p.ratio) ELSE None
                   ELSE LET auto == auto_calculate_pro_rata(call.contract,
                                                            call.billing_cycle)
                        IN  IF auto /= None /\ auto[1].ratio < Millionths
                            THEN Some(auto[1].ratio) ELSE None

\* the vendor switch is off, the override is enabled, and a ratio comes back
C24_Witness ==
    /\ call /= NoCall /\ call.fn = "get_pro_rata_ratio"
    /\ call.pro_rata_override = "enabled" /\ ~call.pro_rata_enabled
    /\ call.result /= None

(* ---------- generate_slips: the amounts of the rows of one usage ---------- *)
\* USD amounts are counted in cents, KRW amounts in whole won, exchange
\* rates in won per dollar (0 when the request or the table gives none),
\* pro-rata ratios in millionths.  The products the code forms in floating
\* point are taken exactly.
NoKrw == 0 - 1            \* dmbtr_c is None
NoRatio == 0 - 1          \* pro_rata_ratio is None
NoOriginal == 0 - 1       \* original_amount is None
NoId == 0                 \* split_rule_id / split_allocation_id is None

\* the row generate_slips adds, with the columns the amounts go to; wrbtr
\* is in won when waers is KRW and in cents when it is USD
AmountRow(batch_id, seqno, source_type, uid, partner, company_seq, waers, wrbtr, wrbtr_usd, dmbtr_c, exchange_rate, pro_rata_ratio, original_amount, split_rule_id, split_allocation_id) ==
    [batch_id |-> batch_id, seqno |-> seqno, source_type |-> source_type,
     uid |-> uid, partner |-> partner, company_seq |-> company_seq,
     waers |-> waers, wrbtr |-> wrbtr, wrbtr_usd |-> wrbtr_usd,
     dmbtr_c |-> dmbtr_c, exchange_rate |-> exchange_rate,
     pro_rata_ratio |-> pro_rata_ratio, original_amount |-> original_amount,
     split_rule_id |-> split_rule_id, split_allocation_id |-> split_allocation_id,
     is_confirmed |-> FALSE]

\* DepositUsage(...) as the generation loop adds it
GenUsage(deposit_id, amount, amount_krw, slip_batch_id, uid) ==
    [deposit_id |-> deposit_id, amount |-> amount, amount_krw |-> amount_krw,
     slip_batch_id |-> slip_batch_id, uid |-> uid]

\* domestic_exchange_rate of the run: the manual rate, else the rate
\* _ensure_exchange_rate found when auto_exchange_rate is on
DomesticRate(u) ==
    IF u.exchange_rate /= 0 THEN u.exchange_rate
    ELSE IF u.auto_exchange_rate /\ u.auto_rate /= 0 THEN u.auto_rate
    ELSE 0

\* apply_rounding(amount_usd * rate, rule); with no rate the USD amount is
\* taken for the KRW amount
Krw(amount_usd, rate, rule) ==
    IF rate > 0 THEN ApplyRounding(amount_usd * rate, 100, rule, 0)
    ELSE ApplyRounding(amount_usd, 100, rule, 0)

\* the FIFO loop over the contract profile's foreign-currency deposits
RECURSIVE GenFifoKrw(_, _, _, _, _, _, _, _)
GenFifoKrw(deps, added, available_deposits, remaining_usd, fifo_krw, effective_overseas_rate, batch_id, uid) ==
    IF available_deposits = <<>> \/ remaining_usd <= 0
    THEN [deposits |-> deps, added |-> added, remaining_usd |-> remaining_usd,
          fifo_krw |-> fifo_krw]
    ELSE LET id == Head(available_deposits)
             use == Min(remaining_usd, deps[id].remaining_amount)
             rate == IF deps[id].exchange_rate /= 0 THEN deps[id].exchange_rate
                     ELSE effective_overseas_rate
             portion_krw == ApplyRounding(use * rate, 100, "round_half_up", 0)
         IN  GenFifoKrw([deps EXCEPT ![id] = Consume(@, use)],
                        Append(added, GenUsage(id, use, portion_krw, batch_id, uid)),
                        Tail(available_deposits), remaining_usd - use,
                        fifo_krw + portion_krw, effective_overseas_rate,
                        batch_id, uid)

\* _get_pro_rata_ratio: the vendor switch of the config and the override
\* of the contract profile, handed to get_pro_rata_ratio
_get_pro_rata_ratio(contract_seq, contract, billing_cycle, pro_rata_enabled, contract_profile) ==
    LET pro_rata_override ==
            IF contract_profile /= None THEN contract_profile[1].pro_rata_override
            ELSE Null
    IN  ProRataRatio(contract_seq, contract, billing_cycle, pro_rata_enabled,
                     pro_rata_override)

\* "if pro_rata_ratio and pro_rata_ratio < 1.0"
RatioApplies(pro_rata_ratio) ==
    /\ pro_rata_ratio /= None
    /\ pro_rata_ratio[1] /= 0
    /\ pro_rata_ratio[1] < Millionths

\* round_decimal(amount_usd * pro_rata_ratio, 2)
ProRated(amount_usd, ratio) == round_decimal(amount_usd * ratio, Millionths)

\* the company a split allocation points to: company 5 is an overseas entity
TargetIsOverseas(target_company_seq) == target_company_seq = 5

\* the row of one allocation, the pro-rata ratio applied to its amount
SplitSlip(alloc, u, batch_id, seqno, pro_rata_ratio, domestic_exchange_rate, effective_overseas_rate, effective_rounding_rule) ==
    LET alloc_amount_usd == alloc.allocated_amount_usd
        applies == u.apply_pro_rata /\ u.has_contract /\ RatioApplies(pro_rata_ratio)
        final_amount_usd == IF applies THEN ProRated(alloc_amount_usd, pro_rata_ratio[1])
                            ELSE alloc_amount_usd
        target_is_overseas == TargetIsOverseas(alloc.target_company_seq)
        final_amount_krw ==
            IF target_is_overseas
            THEN ApplyRounding(final_amount_usd
                                 * (IF effective_overseas_rate /= 0
                                    THEN effective_overseas_rate ELSE 1),
                               100, "round_half_up", 0)
            ELSE ApplyRounding(final_amount_usd
                                 * (IF domestic_exchange_rate /= 0
                                    THEN domestic_exchange_rate ELSE 1),
                               100, effective_rounding_rule, 0)
    IN  AmountRow(batch_id, seqno, "split", u.uid, alloc.target_company_bp,
                  alloc.target_company_seq,
                  IF target_is_overseas THEN "USD" ELSE "KRW",
                  IF target_is_overseas
                  THEN ApplyRounding(final_amount_usd, 100, effective_rounding_rule, 2)
                  ELSE final_amount_krw,
                  final_amount_usd,
                  IF target_is_overseas THEN final_amount_krw ELSE NoKrw,
                  IF target_is_overseas THEN effective_overseas_rate
                  ELSE domestic_exchange_rate,
                  IF applies THEN pro_rata_ratio[1] ELSE NoRatio,
                  IF applies THEN alloc_amount_usd ELSE NoOriginal,
                  u.rule_id, alloc.allocation_id)

\* the loop without "if alloc_amount_usd <= 0: continue"
RECURSIVE SplitAmountRowsUnfiltered(_, _, _, _, _, _, _, _)
SplitAmountRowsUnfiltered(allocations, u, batch_id, seqno, pro_rata_ratio, domestic_exchange_rate, effective_overseas_rate, effective_rounding_rule) ==
    IF allocations = <<>> THEN <<>>
    ELSE <<SplitSlip(Head(allocations), u, batch_id, seqno, pro_rata_ratio,
                     domestic_exchange_rate, effective_overseas_rate,
                     effective_rounding_rule)>>
         \o SplitAmountRowsUnfiltered(Tail(allocations), u, batch_id, seqno + 1,
                                      pro_rata_ratio, domestic_exchange_rate,
                                      effective_overseas_rate,
                                      effective_rounding_rule)

\* the rows of a split: one per allocation with a positive amount
RECURSIVE SplitAmountRows(_, _, _, _, _, _, _, _)
SplitAmountRows(allocations, u, batch_id, seqno, pro_rata_ratio, domestic_exchange_rate, effective_overseas_rate, effective_rounding_rule) ==
    IF allocations = <<>> THEN <<>>
    ELSE IF Head(allocations).allocated_amount_usd <= 0
    THEN SplitAmountRows(Tail(allocations), u, batch_id, seqno, pro_rata_ratio,
                         domestic_exchange_rate, effective_overseas_rate,
                         effective_rounding_rule)
    ELSE <<SplitSlip(Head(allocations), u, batch_id, seqno, pro_rata_ratio,
                     domestic_exchange_rate, effective_overseas_rate,
                     effective_rounding_rule)>>
         \o SplitAmountRows(Tail(allocations), u, batch_id, seqno + 1,
                            pro_rata_ratio, domestic_exchange_rate,
                            effective_overseas_rate, effective_rounding_rule)

\* One pass of the loop over billing_summary for a usage u with a positive
\* amount whose company is not an internal-cost company: the deposits as
\* the pass leaves them, the usage rows and the slip rows it adds.
UsageRun(u, deps, batch_id, seqno) ==
    LET amount_usd == u.amount_usd
        domestic_exchange_rate == DomesticRate(u)
        rounding_rule == u.rounding_rule
        amount_krw0 == Krw(amount_usd, domestic_exchange_rate, rounding_rule)
        is_overseas == u.is_overseas
        slip_currency == IF is_overseas THEN "USD" ELSE "KRW"
        slip_amount0 == IF is_overseas
                        THEN ApplyRounding(amount_usd, 100, rounding_rule, 2)
                        ELSE amount_krw0
        contract_billing_profile == u.contract_profile
        override == IF contract_billing_profile /= None
                    THEN contract_billing_profile[1].rounding_rule_override
                    ELSE Null
        effective_rounding_rule == IF override /= Null THEN override ELSE rounding_rule
        effective_overseas_rate == u.overseas_rate
        slip_amount_krw1 ==
            IF is_overseas
            THEN (IF effective_overseas_rate > 0
                  THEN ApplyRounding(amount_usd * effective_overseas_rate, 100,
                                     "round_half_up", 0)
                  ELSE NoKrw)
            ELSE amount_krw0
        applied_exchange_rate ==
            IF is_overseas /\ effective_overseas_rate > 0 THEN effective_overseas_rate
            ELSE domestic_exchange_rate
        \* deposits of the contract profile, FIFO
        available_deposits ==
            IF is_overseas /\ contract_billing_profile /= None /\ amount_usd > 0
            THEN GenAvailableDeposits(deps, contract_billing_profile[1].id)
            ELSE <<>>
        fifo == GenFifoKrw(deps, <<>>, available_deposits, amount_usd, 0,
                           effective_overseas_rate, batch_id, u.uid)
        fifo_krw == fifo.fifo_krw
                    + (IF fifo.remaining_usd > 0
                       THEN ApplyRounding(fifo.remaining_usd * effective_overseas_rate,
                                          100, "round_half_up", 0)
                       ELSE 0)
        slip_amount_krw2 == IF available_deposits /= <<>> THEN fifo_krw
                            ELSE slip_amount_krw1
        \* rounding override of the contract profile
        amount_krw1 ==
            IF override /= Null
            THEN (IF u.exchange_rate > 0
                  THEN ApplyRounding(amount_usd * u.exchange_rate, 100,
                                     effective_rounding_rule, 0)
                  ELSE ApplyRounding(amount_usd, 100, effective_rounding_rule, 0))
            ELSE amount_krw0
        slip_amount1 ==
            IF override /= Null
            THEN (IF is_overseas
                  THEN 100 * ApplyRounding(amount_usd, 100, effective_rounding_rule, 0)
                  ELSE amount_krw1)
            ELSE slip_amount0
        \* split
        split_result ==
            IF u.apply_split_billing THEN calculate_split_amounts(u.rule, amount_usd)
            ELSE calculate_split_amounts(NoRule, amount_usd)
        split_applied == split_result.allocations /= <<>>
        pro_rata_ratio ==
            IF u.apply_pro_rata /\ u.has_contract
            THEN _get_pro_rata_ratio(u.contract_seq, u.contract, u.billing_cycle,
                                     u.pro_rata_enabled, contract_billing_profile)
            ELSE None
        \* the single row of a usage that is not split
        applies == RatioApplies(pro_rata_ratio)
        amount_usd2 == IF applies THEN ProRated(amount_usd, pro_rata_ratio[1])
                       ELSE amount_usd
        amount_krw2 == IF applies
                       THEN Krw(amount_usd2, domestic_exchange_rate, effective_rounding_rule)
                       ELSE amount_krw1
        slip_amount2 ==
            IF applies
            THEN (IF is_overseas
                  THEN ApplyRounding(amount_usd2, 100, effective_rounding_rule, 2)
                  ELSE amount_krw2)
            ELSE slip_amount1
        slip_amount_krw3 ==
            IF applies /\ is_overseas /\ effective_overseas_rate > 0
            THEN ApplyRounding(amount_usd2 * effective_overseas_rate, 100,
                               "round_half_up", 0)
            ELSE slip_amount_krw2
        slip == AmountRow(batch_id, seqno, "billing", u.uid, u.bp_number,
                          u.company_seq, slip_currency, slip_amount2, amount_usd2,
                          IF is_overseas THEN slip_amount_krw3 ELSE NoKrw,
                          applied_exchange_rate,
                          IF applies THEN pro_rata_ratio[1] ELSE NoRatio,
                          IF applies THEN amount_usd ELSE NoOriginal,
                          NoId, NoId)
        rows == IF split_applied
                THEN SplitAmountRows(split_result.allocations, u, batch_id, seqno,
                                     pro_rata_ratio, domestic_exchange_rate,
                                     effective_overseas_rate,
                                     effective_rounding_rule)
                ELSE <<slip>>
    IN  [deposits |-> fifo.deposits, added |-> fifo.added, rows |-> rows,
         seqno |-> seqno + Len(rows), split_applied |-> split_applied,
         allocations |-> split_result.allocations,
         pro_rata_ratio |-> pro_rata_ratio]

\* a deposit of contract profile 1 as create_contract_deposit stores it,
\* with its own exchange rate (0 when none was given)
RatedDeposit(deposit_date, amount, currency, exchange_rate) ==
    [profile_id |-> 0, contract_profile_id |-> 1, deposit_date |-> deposit_date,
     amount |-> amount, currency |-> currency, remaining_amount |-> amount,
     is_exhausted |-> FALSE, exchange_rate |-> exchange_rate]

DepositTables ==
    {<<>>,
     <<RatedDeposit(1, 100, "USD", 4)>>,
     <<RatedDeposit(2, 100, "USD", 0), RatedDeposit(1, 100, "USD", 4)>>,
     <<RatedDeposit(1, 100, "KRW", 4)>>}

\* split rules of the usage's account: 60 % and 40 %, or a fixed amount
\* that takes the whole usage before a percentage
Rule6040 == <<Allocation(1, "percentage", 60, 0, 4, "BP4"),
              Allocation(2, "percentage", 40, 0, 5, "BP5")>>
RuleFixedFirst == <<Allocation(3, "fixed_amount", 300, 0, 4, "BP4"),
                    Allocation(4, "percentage", 50, 1, 5, "BP5")>>
RuleZeroFirst == <<Allocation(5, "fixed_amount", 0, 0, 4, "BP4"),
                   Allocation(6, "percentage", 100, 1, 5, "BP5")>>

\* the contract profile of the usage's contract
ProfileRow(rounding_rule_override, pro_rata_override) ==
    [id |-> 1, rounding_rule_override |-> rounding_rule_override,
     pro_rata_override |-> pro_rata_override]

\* the contract of the usage: running the whole cycle, started on its
\* second day, or starting after it
UsageContracts ==
    {Some([contract_start_date |-> s, contract_end_date |-> NoDate]) :
        s \in {NoDate, Date(ShortMonth, 2), Date(ShortMonth + 1, 1)}}

\* request, vendor configuration and master data of a run over one usage
UsageInputs ==
    {[uid |-> "uidA", contract_seq |-> 1, company_seq |-> 1, bp_number |-> "BP1",
      has_contract |-> TRUE, billing_cycle |-> ShortMonth, rule_id |-> 1,
      amount_usd |-> a, exchange_rate |-> r[1], auto_exchange_rate |-> r[2],
      auto_rate |-> r[3], overseas_rate |-> o, rounding_rule |-> "floor",
      pro_rata_enabled |-> en, is_overseas |-> ov, contract_profile |-> cp,
      contract |-> c, apply_pro_rata |-> pr, apply_split_billing |-> sp[1],
      rule |-> sp[2]] :
        a \in {150, 250},
        r \in {<<3, TRUE, 5>>, <<0, TRUE, 5>>, <<0, FALSE, 5>>},
        o \in {0, 7}, en \in BOOLEAN, ov \in BOOLEAN,
        cp \in {None} \cup {Some(ProfileRow(rr, po)) :
                              rr \in {Null, "ceiling"}, po \in {Null, "enabled"}},
        c \in UsageContracts, pr \in BOOLEAN,
        sp \in {<<FALSE, Rule6040>>, <<TRUE, NoRule>>, <<TRUE, Rule6040>>,
                <<TRUE, RuleFixedFirst>>, <<TRUE, RuleZeroFirst>>}}

\* POST /generate for a billing summary of one usage, no additional charges
generate_slips_amounts ==
    /\ Args(call) /\ call.fn = "generate_slips"
    /\ LET run == UsageRun(call.u, deposits, nextBatch, 1)
       IN  /\ deposits' = run.deposits
           /\ usages' = usages \o run.added
           /\ slips' = slips \cup SeqToSet(run.rows)
           /\ call' = [fn |-> "generate_slips", pc |-> "done", u |-> call.u,
                       before |-> deposits, split_applied |-> run.split_applied,
                       allocations |-> run.allocations,
                       pro_rata_ratio |-> run.pro_rata_ratio]
    /\ nextBatch' = nextBatch + 1
    /\ lastOp' = Op("generate_slips", "ok")
    /\ UNCHANGED <<sessions, gen, periods, rules, rates>>

InitAmounts ==
    /\ deposits \in DepositTables
    /\ usages = <<>>
    /\ slips = {}
    /\ nextBatch = 1
    /\ lastOp = [op |-> "init", result |-> "ok"]
    /\ sessions = <<>>
    /\ gen = <<>>
    /\ periods = {}
    /\ rules = <<>>
    /\ rates = {}
    /\ call \in [fn : {"generate_slips"}, pc : {"args"}, u : UsageInputs]

NextAmounts == generate_slips_amounts

SpecAmounts == InitAmounts /\ [][NextAmounts]_vars

\* the rows of the run, and the rounding rule in effect for the usage
BillingRows == {s \in slips : s.source_type = "billing"}
SplitSlipRows == {s \in slips : s.source_type = "split"}
EffectiveRule(u) ==
    IF u.contract_profile /= None
       /\ u.contract_profile[1].rounding_rule_override /= Null
    THEN u.contract_profile[1].rounding_rule_override
    ELSE u.rounding_rule

\* C23: whenever pro-rata is enabled and get_pro_rata_ratio yields a ratio
\* r for the usage's contract (r = 0 included), the emitted row bills
\* wrbtr_usd = round_half_up(amount_usd * r, 2), records the pre-ratio
\* amount as original_amount and r as pro_rata_ratio and converts to KRW
\* from the pro-rated amount; when it yields None the full amount is billed.
C23_ProRataBilled ==
    (Done("generate_slips") /\ ~call.split_applied) =>
        \A s \in BillingRows :
            IF call.pro_rata_ratio /= None
            THEN LET r == call.pro_rata_ratio[1]
                     billed == Quantize(call.u.amount_usd * r, Millionths,
                                        "ROUND_HALF_UP")
                 IN  /\ s.wrbtr_usd = billed
                     /\ s.original_amount = call.u.amount_usd
                     /\ s.pro_rata_ratio = r
                     /\ s.waers = "KRW" =>
                            s.wrbtr = Krw(billed, DomesticRate(call.u),
                                          EffectiveRule(call.u))
            ELSE s.wrbtr_usd = call.u.amount_usd

(* ---------- calculate_split_amounts on a rule and an amount ---------- *)
\* what an allocation of a rule may be: a percentage, or a fixed amount in
\* cents (split_value is an unvalidated float), with a priority
AllocationKinds ==
    [split_type : {"percentage"}, split_value : {30, 40, 60}, priority : {0, 1}]
    \cup [split_type : {"fixed_amount"}, split_value : {0 - 1, 2}, priority : {0, 1}]

\* the allocations of a rule in the order of their ids
RuleOf(kinds) ==
    [i \in 1..Len(kinds) |->
        Allocation(i, kinds[i].split_type, kinds[i].split_value, kinds[i].priority,
                   IF i = 2 THEN 5 ELSE 4, IF i = 2 THEN "BP5" ELSE "BP4")]
RulesOfKinds ==
    {RuleOf(<<a>>) : a \in AllocationKinds}
    \cup {RuleOf(<<a, b>>) : a \in AllocationKinds, b \in AllocationKinds}
    \cup {RuleOf(<<a, b, c>>) : a \in AllocationKinds, b \in AllocationKinds,
                                c \in {k \in AllocationKinds : k.priority = 0}}

split_amounts ==
    /\ Args(call) /\ call.fn = "calculate_split_amounts"
    /\ call' = [fn |-> "calculate_split_amounts", pc |-> "done", rule |-> call.rule,
                amount_usd |-> call.amount_usd,
                result |-> calculate_split_amounts(call.rule, call.amount_usd)]
    /\ UNCHANGED <<ledger, periods, rules, rates>>

InitSplitCalc ==
    /\ EmptyTables
    /\ call \in [fn : {"calculate_split_amounts"}, pc : {"args"},
                 rule : RulesOfKinds \cup {Rule6040},
                 amount_usd : (1..MaxSplitAmount) \cup {100000}]   \* and 1000.00 USD

NextSplitCalc == split_amounts

SpecSplitCalc == InitSplitCalc /\ [][NextSplitCalc]_vars

\* the allocation of the rule with an id, and what it asks for
RuleAllocation(rule, id) == CHOOSE a \in SeqToSet(rule) : a.allocation_id = id
Before(a, b) ==
    \/ a.priority < b.priority
    \/ a.priority = b.priority /\ a.allocation_id < b.allocation_id
Asked(a, amount_usd) ==
    IF a.split_type = "percentage"
    THEN Quantize(amount_usd * a.split_value, 100, "ROUND_HALF_UP")
    ELSE a.split_value

\* C25: calculate_split_amounts processes the allocations in ascending
\* (priority, id) order and stops once nothing remains; a percentage
\* allocation receives min(round_half_up(source * percent / 100, 2),
\* unallocated remainder), a fixed_amount allocation min(configured value,
\* unallocated remainder); 60 % and 40 % of 1000.00 give 600.00, 400.00 and
\* a remainder of 0.00.
C25_SplitProcessing ==
    Done("calculate_split_amounts") =>
        LET res == call.result.allocations
            rule == call.rule
            ids == {res[i].allocation_id : i \in 1..Len(res)}
            Left(n) == call.amount_usd
                       - SumSeq([j \in 1..n |-> res[j].allocated_amount_usd])
        IN  /\ \A i \in 1..Len(res) : \A j \in 1..Len(res) :
                   i < j => Before(RuleAllocation(rule, res[i].allocation_id),
                                   RuleAllocation(rule, res[j].allocation_id))
            /\ \A a \in SeqToSet(rule) :
                   a.allocation_id \notin ids =>
                       /\ \A id \in ids : Before(RuleAllocation(rule, id), a)
                       /\ Left(Len(res)) <= 0
            /\ \A i \in 1..Len(res) :
                   /\ Left(i - 1) > 0
                   /\ res[i].allocated_amount_usd =
                          Min(Asked(RuleAllocation(rule, res[i].allocation_id),
                                    call.amount_usd),
                              Left(i - 1))
            /\ call.result.remaining = Left(Len(res))
            /\ (rule = Rule6040 /\ call.amount_usd = 100000) =>
                   /\ Len(res) = 2
                   /\ res[1].allocated_amount_usd = 60000
                   /\ res[2].allocated_amount_usd = 40000
                   /\ call.result.remaining = 0

\* three allocations, the one with the highest id first by its priority,
\* a percentage cut down to what was left, and the last never reached
C25_Witness ==
    /\ Done("calculate_split_amounts")
    /\ Len(call.rule) = 3
    /\ Len(call.result.allocations) = 2
    /\ call.result.allocations[1].allocation_id = 2
    /\ call.result.allocations[2].allocated_amount_usd
          < Asked(RuleAllocation(call.rule, call.result.allocations[2].allocation_id),
                  call.amount_usd)
    /\ call.result.remaining = 0

\* the split rows that carry an allocation id
RowsOfAllocation(id) == {s \in SplitSlipRows : s.split_allocation_id = id}

\* C26 as stated: when a rule yields allocations for a usage, generation
\* emits exactly one split row for every target entity of the rule, with
\* the rule id and the allocation id, and no billing-source row; when no
\* rule applies it emits exactly one billing-source row.
C26_OneRowPerTarget ==
    Done("generate_slips") =>
        IF call.split_applied
        THEN /\ BillingRows = {}
             /\ \A a \in SeqToSet(call.u.rule) :
                    Cardinality({s \in RowsOfAllocation(a.allocation_id) :
                                    /\ s.company_seq = a.target_company_seq
                                    /\ s.split_rule_id = call.u.rule_id}) = 1
        ELSE Cardinality(BillingRows) = 1 /\ SplitSlipRows = {}

\* C26 as the handler keeps it: when split billing is enabled and an
\* applicable rule yields allocations for a usage, generation emits exactly
\* one row of source type split for every allocation that
\* calculate_split_amounts returns with a positive amount, carrying the rule id, the allocation id and the target
\* entity, and no row for the other allocations of the rule; it emits no
\* billing-source row for that usage.  When no rule applies exactly one
\* billing-source row is emitted for the usage.
C26_SplitRows ==
    Done("generate_slips") =>
        IF call.split_applied
        THEN /\ BillingRows = {}
             /\ \A i \in 1..Len(call.allocations) :
                    LET a == call.allocations[i]
                    IN  IF a.allocated_amount_usd > 0
                        THEN /\ Cardinality(RowsOfAllocation(a.allocation_id)) = 1
                             /\ \A s \in RowsOfAllocation(a.allocation_id) :
                                    /\ s.company_seq = a.target_company_seq
                                    /\ s.split_rule_id = call.u.rule_id
                        ELSE RowsOfAllocation(a.allocation_id) = {}
             /\ \A s \in SplitSlipRows :
                    \E i \in 1..Len(call.allocations) :
                        call.allocations[i].allocation_id = s.split_allocation_id
        ELSE Cardinality(BillingRows) = 1 /\ SplitSlipRows = {}

\* a rule of two allocations was applied, the first got nothing and has
\* no row, the second has its row
C26_Witness ==
    /\ Done("generate_slips") /\ call.split_applied
    /\ Len(call.allocations) = 2
    /\ call.allocations[1].allocated_amount_usd = 0
    /\ RowsOfAllocation(call.allocations[1].allocation_id) = {}
    /\ Cardinality(RowsOfAllocation(call.allocations[2].allocation_id)) = 1

\* the KRW value of a consumed portion: at the deposit's own rate, or at
\* the resolved overseas rate when the deposit has none
PortionKrw(usage) ==
    LET dep == call.before[usage.deposit_id]
        rate == IF dep.exchange_rate /= 0 THEN dep.exchange_rate
                ELSE call.u.overseas_rate
    IN  Quantize(usage.amount * rate, 100, "ROUND_HALF_UP")
Consumed == SumSeq([i \in 1..Len(usages) |-> usages[i].amount])
HasForeignDeposits ==
    \E i \in 1..Len(call.before) :
        /\ call.before[i].contract_profile_id = 1
        /\ ~call.before[i].is_exhausted
        /\ call.before[i].currency /= "KRW"

\* C27: in slip generation for an overseas entity with outstanding non-KRW
\* deposits, the emitted row's KRW equivalent (dmbtr_c) is the sum, over
\* the deposits consumed in FIFO order, of round_half_up(portion * the
\* deposit's own exchange rate, or the resolved overseas rate when it has
\* none) plus round_half_up(unconsumed remainder * resolved overseas rate).
C27_DepositRateKrw ==
    (/\ Done("generate_slips") /\ ~call.split_applied
     /\ call.u.is_overseas /\ call.u.contract_profile /= None
     /\ HasForeignDeposits) =>
        \A s \in BillingRows :
            s.dmbtr_c =
                SumSeq([i \in 1..Len(usages) |-> PortionKrw(usages[i])])
                + Quantize((call.u.amount_usd - Consumed) * call.u.overseas_rate,
                           100, "ROUND_HALF_UP")

\* the USD amount billed on a set of rows
RECURSIVE BilledUsd(_)
BilledUsd(rows) ==
    IF rows = {} THEN 0
    ELSE LET s == CHOOSE r \in rows : TRUE
         IN  s.wrbtr_usd + BilledUsd(rows \ {s})

\* C28: generation applies pro-rata and split allocation before deposit
\* consumption: the total USD amount consumed from deposits for a usage in
\* a batch never exceeds the USD amount (wrbtr_usd) billed on the rows the
\* batch emits for that usage to the entity of the deposit-owning contract.
C28_ConsumedWithinBilled ==
    Done("generate_slips") =>
        Consumed <= BilledUsd({s \in slips : /\ s.uid = call.u.uid
                                             /\ s.company_seq = call.u.company_seq})

\* the contract profile of the usage sets rounding_rule_override
HasRoundingOverride(u) ==
    u.contract_profile /= None /\ u.contract_profile[1].rounding_rule_override /= Null

\* C29: when a contract profile sets rounding_rule_override, a domestic
\* row's KRW amount equals apply_rounding(amount_usd * the domestic
\* exchange rate in effect for the run, override rule, 0 decimals), with
\* the same rate whether it was supplied manually or resolved
\* automatically, and an overseas row's USD amount is rounded with the
\* override rule at 2 decimals.
C29_RoundingOverride ==
    (/\ Done("generate_slips") /\ ~call.split_applied
     /\ HasRoundingOverride(call.u) /\ DomesticRate(call.u) > 0) =>
        \A s \in BillingRows :
            LET rule == call.u.contract_profile[1].rounding_rule_override
            IN  IF s.waers = "KRW"
                THEN s.wrbtr = Quantize(s.wrbtr_usd * DomesticRate(call.u), 100,
                                        RoundingOf(rule))
                ELSE s.wrbtr = Quantize(s.wrbtr_usd, 1, RoundingOf(rule))

(* ---------- PATCH of a deposit's amount ---------- *)
\* the step is a correction of deposit id's amount to another amount by
\* the endpoint that owns the deposit
AmountCorrected(id, amount) ==
    /\ amount /= deposits[id].amount
    /\ \/ deposits[id].profile_id /= 0 /\ update_deposit(id, NoDate, Null, amount)
       \/ /\ deposits[id].contract_profile_id /= 0
          /\ update_contract_deposit(id, NoDate, Null, amount)

\* C30: an administrative correction of a deposit's amount from a to a'
\* re-derives the remaining balance proportionally, that is the new
\* remaining_amount equals the old remaining_amount * a' / a, and sets
\* is_exhausted exactly when the new remaining balance is 0.
C30_ProportionalCorrection ==
    [][\A id \in DepositIds, amount \in Amounts :
          (AmountCorrected(id, amount) /\ deposits[id].amount > 0) =>
              /\ deposits'[id].remaining_amount * deposits[id].amount
                     = deposits[id].remaining_amount * amount
              /\ deposits'[id].is_exhausted <=> deposits'[id].remaining_amount = 0]_vars

====
